---- MODULE Spec2Model ----
(***************************************************************************)
(* Model of the chat pipeline of ais-mcp-chatbot/server.js:                *)
(*   POST /chat -> translateQuestionToSQL -> executeSQLQuery               *)
(*              -> formatResponse -> HTTP response.                        *)
(* Strings are sequences of one-character strings, so that trim, split,    *)
(* includes, startsWith and the two code-fence regular expressions are     *)
(* computed character by character, as the JavaScript does.                *)
(***************************************************************************)
EXTENDS Integers, Sequences, FiniteSets, TLC

(***************************************************************************)
(* Bounds of the model.                                                    *)
(***************************************************************************)
\* a model completion is a concatenation of at most MaxChunks chunks
MaxChunks == 3
\* a question is a concatenation of at most MaxQChunks chunks
MaxQChunks == 2
\* the query tool returns at most MaxRows rows
MaxRows == 1

(***************************************************************************)
(* JavaScript string primitives.                                           *)
(***************************************************************************)
LowerLetters ==
  <<"a","b","c","d","e","f","g","h","i","j","k","l","m",
    "n","o","p","q","r","s","t","u","v","w","x","y","z">>

UpperLetters ==
  <<"A","B","C","D","E","F","G","H","I","J","K","L","M",
    "N","O","P","Q","R","S","T","U","V","W","X","Y","Z">>

UpperOf == [c \in {LowerLetters[i] : i \in 1..26} |->
              UpperLetters[CHOOSE i \in 1..26 : LowerLetters[i] = c]]

LowerOf == [c \in {UpperLetters[i] : i \in 1..26} |->
              LowerLetters[CHOOSE i \in 1..26 : UpperLetters[i] = c]]

\* String.prototype.toUpperCase
toUpperCase(s) == [i \in 1..Len(s) |-> IF s[i] \in DOMAIN UpperOf THEN UpperOf[s[i]] ELSE s[i]]

\* String.prototype.toLowerCase
toLowerCase(s) == [i \in 1..Len(s) |-> IF s[i] \in DOMAIN LowerOf THEN LowerOf[s[i]] ELSE s[i]]

\* the white space characters the modelled texts can contain
WhiteSpace == {" ", "\n"}

\* s occurs in t at (1-based) position i
OccursAt(t, s, i) ==
  /\ i >= 1
  /\ i + Len(s) - 1 <= Len(t)
  /\ \A k \in 1..Len(s) : t[i + k - 1] = s[k]

\* String.prototype.startsWith
startsWith(t, s) == OccursAt(t, s, 1)

\* String.prototype.includes
includes(t, s) == \E i \in 1..(Len(t) + 1) : OccursAt(t, s, i)

\* String.prototype.trim
trim(s) ==
  LET nonWs == {i \in 1..Len(s) : s[i] \notin WhiteSpace}
  IN  IF nonWs = {} THEN <<>>
      ELSE LET lo == CHOOSE i \in nonWs : \A j \in nonWs : i <= j
               hi == CHOOSE i \in nonWs : \A j \in nonWs : i >= j
           IN  SubSeq(s, lo, hi)

\* String.prototype.split('\n')
RECURSIVE split(_)
split(s) ==
  LET nl == {i \in 1..Len(s) : s[i] = "\n"}
  IN  IF nl = {} THEN <<s>>
      ELSE LET i == CHOOSE x \in nl : \A y \in nl : x <= y
           IN  <<SubSeq(s, 1, i - 1)>> \o split(SubSeq(s, i + 1, Len(s)))

\* Array.prototype.join('\n')
RECURSIVE join(_)
join(ls) ==
  IF Len(ls) = 0 THEN <<>>
  ELSE IF Len(ls) = 1 THEN ls[1]
  ELSE ls[1] \o <<"\n">> \o join(Tail(ls))

\* Array.prototype.indexOf (1-based; the element is known to occur)
indexOf(ls, l) == CHOOSE i \in 1..Len(ls) : ls[i] = l /\ \A j \in 1..(i - 1) : ls[j] # l

Min(S) == CHOOSE x \in S : \A y \in S : x <= y


(***************************************************************************)
(* Constants of translateQuestionToSQL.                                    *)
(***************************************************************************)
\* a keyword list that takes DROP for the start of a query as well
sqlKeywords_withDrop ==
  { <<"S","E","L","E","C","T">>, <<"I","N","S","E","R","T">>,
    <<"U","P","D","A","T","E">>, <<"D","E","L","E","T","E">>,
    <<"W","I","T","H">>, <<"C","R","E","A","T","E">>,
    <<"A","L","T","E","R">>, <<"D","R","O","P">> }

sqlKeywords ==
  { <<"S","E","L","E","C","T">>, <<"I","N","S","E","R","T">>,
    <<"U","P","D","A","T","E">>, <<"D","E","L","E","T","E">>,
    <<"W","I","T","H">>, <<"C","R","E","A","T","E">>,
    <<"A","L","T","E","R">> }

schemaKeywords ==
  { <<"s","t","o","r","e">>,
    <<"a","d","d"," ","c","o","l","u","m","n">>,
    <<"c","r","e","a","t","e"," ","t","a","b","l","e">>,
    <<"a","l","t","e","r"," ","t","a","b","l","e">>,
    <<"m","o","d","i","f","y">>,
    <<"a","d","d","i","t","i","o","n","a","l"," ","f","i","e","l","d">>,
    <<"n","e","w"," ","c","o","l","u","m","n">> }

INVALID_QUERY == <<"I","N","V","A","L","I","D","_","Q","U","E","R","Y">>

SCHEMA_QUESTION == <<"S","C","H","E","M","A","_","Q","U","E","S","T","I","O","N">>

\* the back-quote character (a string literal cannot hold it)
BT == "backquote"

Fence == <<BT,BT,BT>>

FenceSql == <<BT,BT,BT,"s","q","l">>

FenceSqlNl == <<BT,BT,BT,"s","q","l","\n">>

NlFence == <<"\n",BT,BT,BT>>

\* the message of the error thrown for an out-of-domain question
DomainRejectedMessage == "I can only answer questions about your education database. ..."

(***************************************************************************)
(* The clean-up of the model completion in translateQuestionToSQL.         *)
(***************************************************************************)
NoMatch == [matched |-> FALSE, group |-> <<>>]

\* sqlQuery.match(/```sql\n(.*?)\n```/s): leftmost opening fence that has a
\* closing "\n```" after it, the lazy group ending at the first such closing
matchSqlFence(s) ==
  LET closings(i) == {j \in (i + 7)..Len(s) : OccursAt(s, NlFence, j)}
      starts == {i \in 1..Len(s) : OccursAt(s, FenceSqlNl, i) /\ closings(i) # {}}
  IN  IF starts = {} THEN NoMatch
      ELSE LET i == Min(starts)
               j == Min(closings(i))
           IN  [matched |-> TRUE, group |-> SubSeq(s, i + 7, j - 1)]

\* sqlQuery.match(/```\n?(.*?)\n?```/s): the first \n? is greedy, the group is
\* lazy and ends at the first position where \n?``` matches
matchFence(s) ==
  LET begin(i) == IF i + 3 <= Len(s) /\ s[i + 3] = "\n" THEN i + 4 ELSE i + 3
      ends(i) == {e \in begin(i)..Len(s) : OccursAt(s, NlFence, e) \/ OccursAt(s, Fence, e)}
      starts == {i \in 1..Len(s) : OccursAt(s, Fence, i) /\ ends(i) # {}}
  IN  IF starts = {} THEN NoMatch
      ELSE LET i == Min(starts)
               e == Min(ends(i))
           IN  [matched |-> TRUE, group |-> SubSeq(s, begin(i), e - 1)]

\* m?.[1]?.trim() || sqlQuery
groupOr(m, sqlQuery) ==
  IF m.matched /\ trim(m.group) # <<>> THEN trim(m.group) ELSE sqlQuery

\* lines 167-171: strip a Markdown code fence
stripCodeFence(sqlQuery) ==
  IF includes(sqlQuery, FenceSql) THEN groupOr(matchSqlFence(sqlQuery), sqlQuery)
  ELSE IF includes(sqlQuery, Fence) THEN groupOr(matchFence(sqlQuery), sqlQuery)
  ELSE sqlQuery

\* sqlKeywords.some(keyword => trimmedLine.toUpperCase().startsWith(keyword))
lineStartsWithKeyword(line) ==
  \E keyword \in sqlKeywords : startsWith(toUpperCase(trim(line)), keyword)

\* lines 175-185: the text from the first line that starts with a keyword
cleanQueryOf(sqlQuery) ==
  LET lines == split(sqlQuery)
      hits == {n \in 1..Len(lines) : lineStartsWithKeyword(lines[n])}
  IN  IF hits = {} THEN <<>>
      ELSE LET line == lines[Min(hits)]
           IN  trim(join(SubSeq(lines, indexOf(lines, line), Len(lines))))

\* lines 187-189: if (cleanQuery) sqlQuery = cleanQuery
removeLeadingText(sqlQuery) ==
  IF cleanQueryOf(sqlQuery) # <<>> THEN cleanQueryOf(sqlQuery) ELSE sqlQuery

\* lines 164-189: the completion after trim, fence stripping and prose removal
cleanCompletion(content) == removeLeadingText(stripCodeFence(trim(content)))

\* a final validation that looks for a keyword anywhere in the text
passesFinalValidation_includes(sqlQuery) ==
  \E keyword \in sqlKeywords : includes(trim(toUpperCase(sqlQuery)), keyword)

\* line 192: sqlKeywords.some(k => sqlQuery.toUpperCase().trim().startsWith(k))
passesFinalValidation(sqlQuery) ==
  \E keyword \in sqlKeywords : startsWith(trim(toUpperCase(sqlQuery)), keyword)

Return(v) == [kind |-> "return", value |-> v]

Throw(m) == [kind |-> "throw", message |-> m]

\* lines 164-200: what translateQuestionToSQL does with the completion text
translateCompletion(content) ==
  LET sqlQuery == cleanCompletion(content)
  IN  IF ~passesFinalValidation(sqlQuery) THEN Return(INVALID_QUERY)
      ELSE IF sqlQuery = INVALID_QUERY THEN Throw(<<DomainRejectedMessage>>)
      ELSE Return(sqlQuery)

\* a keyword test that forgets to lower-case the question
isSchemaQuestion_caseSensitive(question) ==
  \E keyword \in schemaKeywords : includes(question, keyword)

\* lines 117-118: the schema-change keyword test on the raw question
isSchemaQuestion(question) ==
  \E keyword \in schemaKeywords : includes(toLowerCase(question), keyword)


(***************************************************************************)
(* JavaScript values that are not plain strings.                           *)
(***************************************************************************)
Undefined == [t |-> "undefined"]

Null == [t |-> "null"]

Str(s) == [t |-> "string", v |-> s]

\* a truthy value that is not a string, such as {"message": 42}
NonString == [t |-> "number"]

Arr(rows) == [t |-> "array", rows |-> rows]

\* a plain object: the whole tool result, whose content field is falsy
Obj(content) == [t |-> "object", content |-> content]

Literal(text) == [t |-> "literal", lit |-> text]

\* JavaScript truthiness of the values above
truthy(x) ==
  CASE x.t = "undefined" -> FALSE
    [] x.t = "null" -> FALSE
    [] x.t = "string" -> x.v # <<>>
    [] OTHER -> TRUE

\* x.length > 0 (undefined > 0 is false)
lengthPositive(x) ==
  CASE x.t = "array" -> Len(x.rows) > 0
    [] x.t = "string" -> Len(x.v) > 0
    [] OTHER -> FALSE

(***************************************************************************)
(* The inputs: request bodies, model completions, tool results, errors.    *)
(***************************************************************************)
RECURSIVE Flatten(_)
Flatten(ss) == IF Len(ss) = 0 THEN <<>> ELSE ss[1] \o Flatten(Tail(ss))

SeqsUpTo(S, n) == UNION {[1..k -> S] : k \in 0..n}

QuestionChunks ==
  { <<"A","d","d"," ","C","o","l","u","m","n"," ">>,
    <<"p","a","r","e","n","t"," ","p","h","o","n","e"," ">> }

Questions == {Flatten(cs) : cs \in SeqsUpTo(QuestionChunks, MaxQChunks)}

\* req.body.message
Messages == {Undefined, NonString} \cup {Str(q) : q \in Questions}

CompletionChunks ==
  { <<"S","e","l","e","c","t"," ","1">>,
    <<"D","R","O","P"," ","T","A","B","L","E"," ","t">>,
    INVALID_QUERY,
    <<"H","e","r","e",":">>,
    <<"\n">>,
    FenceSqlNl,
    Fence,
    <<"S","e","l","e","c","t"," ","1"," ",BT,BT,BT,"x",BT,BT,BT>> }

\* response.choices[0].message.content of the translation call
Completions == {Flatten(cs) : cs \in SeqsUpTo(CompletionChunks, MaxChunks)}

\* response.choices[0].message.content of the narration call
NarrationTexts == { <<"3"," ","r","o","w","s">>, <<" ","o","k","\n">> }

Rows == {"row"}

\* result.content of client.callTool
ToolContents ==
  {Undefined, Str(<<>>), Str(<<"1">>)} \cup {Arr(r) : r \in SeqsUpTo(Rows, MaxRows)}

ToolResults == {[content |-> c] : c \in ToolContents}

\* error.message of an error thrown by an external call
ExternalErrors == { <<"ECONNRESET">>, <<"">> }

\* `Database query failed: ${error.message}`
Wrap(m) == <<"Database query failed: ">> \o m

\* a message string is empty (falsy)
emptyMessage(m) == \A i \in 1..Len(m) : m[i] = ""

(***************************************************************************)
(* The state of one POST /chat request and of its external calls.          *)
(***************************************************************************)
VARIABLES
  pc,                \* the suspension point the request handler is at
  message,           \* req.body.message
  content,           \* response.choices[0].message.content in the translator
  sqlQuery,          \* the value translateQuestionToSQL returned
  toolResult,        \* result of client.callTool in executeSQLQuery
  toolError,         \* the error caught by catch (toolError)
  sqlResult,         \* the value executeSQLQuery returned
  formattedResponse, \* the value formatResponse returned
  res,               \* the HTTP response sent
  responsesSent,     \* number of responses sent for the request
  events,            \* the external calls of the request, in order
  toolSql            \* the sql argument of client.callTool

(***************************************************************************)
(* Requests in flight at the same time: the handler is an async function,  *)
(* so while one request waits at an await the event loop runs another.     *)
(* The variables above are those of the request whose continuation runs.   *)
(***************************************************************************)
VARIABLES
  outcomes,          \* what the external calls of the request returned or threw
  suspended          \* the requests that wait at an await, with their locals

(***************************************************************************)
(* The AWS dashboard server (backend/src/server.js) and its aws-service.   *)
(***************************************************************************)
VARIABLES
  awsPc,             \* where the server is: starting, listening, in a request
  awsInitialized,    \* let awsInitialized of server.js
  defaultRegion,     \* process.env.AWS_DEFAULT_REGION
  awsReq,            \* the request being handled: endpoint and req.query
  awsRes,            \* the HTTP response sent for it
  awsCalls           \* the calls the request made to AWS, in order

awsVars == <<awsPc, awsInitialized, defaultRegion, awsReq, awsRes, awsCalls>>

(***************************************************************************)
(* One call of getStackControllableResources, startStackResources or       *)
(* stopStackResources of the aws-service.                                  *)
(***************************************************************************)
VARIABLES
  svcPc,             \* the await the call is at
  svcCall,           \* the method called and its resourceIds argument
  controllableResources, \* the controllable resources of the stack
  described,         \* per resource: what its describe call returned or threw
  resourcesWithStatus,   \* per resource: the entry its callback returned
  selected,          \* resourcesToStart / resourcesToStop
  acted,             \* per selected resource: what its command returned or threw
  results,           \* per selected resource: the entry its callback returned
  svcSent,           \* the commands sent to AWS, in order
  svcResult          \* what the call returned or threw

svcVars == <<svcPc, svcCall, controllableResources, described,
             resourcesWithStatus, selected, acted, results, svcSent, svcResult>>

(***************************************************************************)
(* The log-group pagination loop of one call of getStackCloudWatchLogs.    *)
(***************************************************************************)
VARIABLES
  logsPc,            \* where the call is: before the loop, at its await, after it
  allLogGroups,      \* allLogGroups.length: the loop reads nothing else of it
  nextToken          \* the token for the next page

logVars == <<logsPc, allLogGroups, nextToken>>

(***************************************************************************)
(* The chat page (App.tsx): the state of the component and the calls of    *)
(* sendMessage that wait for the server.                                   *)
(***************************************************************************)
VARIABLES
  messages,          \* the messages shown, the welcome message first
  input,             \* the text of the input field
  isLoading,         \* a request is under way
  pending,           \* the calls of sendMessage that are at an await
  sendCalls          \* how often sendMessage has been called

uiVars == <<messages, input, isLoading, pending, sendCalls>>

\* the variables of the chat pipeline
chatVars == <<pc, message, content, sqlQuery, toolResult, toolError, sqlResult,
              formattedResponse, res, responsesSent, events, toolSql>>

\* the variables no step of a single chat request touches
outside == <<outcomes, suspended, awsVars, svcVars, logVars, uiVars>>

vars == <<chatVars, outside>>

\* the dashboard server has not been started
AwsOff ==
  /\ awsPc = "off"
  /\ awsInitialized = FALSE
  /\ defaultRegion = [t |-> "undefined"]
  /\ awsReq = [endpoint |-> "none"]
  /\ awsRes = [status |-> 0]
  /\ awsCalls = <<>>

\* no call of the stack methods is under way
SvcOff ==
  /\ svcPc = "off"
  /\ svcCall = [op |-> "none"]
  /\ controllableResources = <<>>
  /\ described = <<>>
  /\ resourcesWithStatus = <<>>
  /\ selected = <<>>
  /\ acted = <<>>
  /\ results = <<>>
  /\ svcSent = <<>>
  /\ svcResult = [kind |-> "none"]

\* getStackCloudWatchLogs is not being called
LogsOff ==
  /\ logsPc = "off"
  /\ allLogGroups = 0
  /\ nextToken = [t |-> "undefined"]

\* the chat page is not open
UiOff ==
  /\ messages = <<>>
  /\ input = <<>>
  /\ isLoading = FALSE
  /\ pending = <<>>
  /\ sendCalls = 0

locals == <<content, sqlQuery, toolResult, toolError, sqlResult, formattedResponse>>

Count(ev) == Cardinality({i \in 1..Len(events) : events[i] = ev})

\* openai.chat.completions.create calls made by translateQuestionToSQL
translationCalls == Count("translate.call")

\* openai.chat.completions.create calls made by formatResponse
narrationCalls == Count("narrate.call")

\* client.connect calls
connectCalls == Count("connect.call")

\* client.callTool calls
toolCalls == Count("tool.call")

\* client.close calls
closeCalls == Count("close.call")

log(evs) == events' = events \o evs

NoResponse == [status |-> 0]

Init ==
  /\ pc = "idle"
  /\ message = Undefined
  /\ content = Undefined
  /\ sqlQuery = Undefined
  /\ toolResult = Undefined
  /\ toolError = <<>>
  /\ sqlResult = Undefined
  /\ formattedResponse = Undefined
  /\ res = NoResponse
  /\ responsesSent = 0
  /\ events = <<>>
  /\ toolSql = Undefined
  /\ outcomes = <<>>
  /\ suspended = <<>>
  /\ AwsOff
  /\ SvcOff
  /\ LogsOff
  /\ UiOff

(***************************************************************************)
(* app.post('/chat'): the catch block and the helpers of the handler.      *)
(***************************************************************************)
DefaultErrorMessage == <<"An error occurred while processing your request.">>

\* the handler returns: its locals and those of the functions it called end
handlerReturns ==
  /\ content' = Undefined
  /\ sqlQuery' = Undefined
  /\ toolResult' = Undefined
  /\ toolError' = <<>>
  /\ sqlResult' = Undefined
  /\ formattedResponse' = Undefined

\* a catch block that sends error.message as it is, without the default text
sendError_noDefault(m) ==
  /\ res' = [status |-> 500, body |-> [success |-> FALSE, error |-> m]]
  /\ responsesSent' = responsesSent + 1
  /\ pc' = "done"
  /\ handlerReturns

\* lines 391-397: catch (error) { res.status(500).json({success:false, error}) }
sendError(m) ==
  /\ res' = [status |-> 500,
             body |-> [success |-> FALSE,
                       error |-> IF emptyMessage(m) THEN DefaultErrorMessage ELSE m]]
  /\ responsesSent' = responsesSent + 1
  /\ pc' = "done"
  /\ handlerReturns

\* lines 299-347: the canned schema advice
handleSchemaQuestion(question) ==
  IF /\ includes(toLowerCase(question), <<"p","h","o","n","e">>)
     /\ includes(toLowerCase(question), <<"p","a","r","e","n","t">>)
  THEN Literal("**Storing Additional Phone Numbers for Parents** ...")
  ELSE Literal("I can help you with database queries about your education data. ...")

\* a normalization that counts every payload as one row
normalize_countsOne(result) ==
  [success |-> TRUE,
   data |-> IF truthy(result.content) THEN result.content ELSE Obj(result.content),
   rowCount |-> 1]

\* lines 237-241: the normalized result of a successful tool call
normalize(result) ==
  [success |-> TRUE,
   data |-> IF truthy(result.content) THEN result.content ELSE Obj(result.content),
   rowCount |-> IF result.content.t = "array" THEN Len(result.content.rows) ELSE 1]

\* lines 289-296: the fallback text of formatResponse
fallbackText(result) ==
  IF truthy(result.data) /\ lengthPositive(result.data)
  THEN [t |-> "found", rowCount |-> result.rowCount, data |-> result.data]
  ELSE Literal("Query completed successfully.")

Apology == Literal("Sorry, I encountered an error while querying the database.")

(***************************************************************************)
(* The steps of a request, one per suspension point.                       *)
(***************************************************************************)
\* a handler that rejects only a missing message, so that "" goes on to the
\* translator
PostChat_undefinedOnly(m) ==
  /\ pc = "idle"
  /\ message' = m
  /\ toolSql' = toolSql
  /\ IF m = Undefined
     THEN /\ res' = [status |-> 400, body |-> [error |-> <<"No message provided">>]]
          /\ responsesSent' = responsesSent + 1
          /\ pc' = "done"
          /\ handlerReturns
          /\ UNCHANGED events
     ELSE IF m.t # "string"
     THEN /\ sendError(<<"question.toLowerCase is not a function">>)
          /\ UNCHANGED events
     ELSE IF isSchemaQuestion(m.v)
     THEN /\ sqlQuery' = Str(SCHEMA_QUESTION)
          /\ pc' = "translated"
          /\ UNCHANGED <<content, toolResult, toolError, sqlResult,
                         formattedResponse, res, responsesSent, events>>
     ELSE /\ log(<<"translate.call">>)
          /\ pc' = "await_translation"
          /\ UNCHANGED <<locals, res, responsesSent>>

\* lines 349-359 and 114-124: the request arrives; runs up to the first await
PostChat(m) ==
  /\ pc = "idle"
  /\ message' = m
  /\ toolSql' = toolSql
  /\ IF ~truthy(m)
     THEN /\ res' = [status |-> 400, body |-> [error |-> <<"No message provided">>]]
          /\ responsesSent' = responsesSent + 1
          /\ pc' = "done"
          /\ handlerReturns
          /\ UNCHANGED events
     ELSE IF m.t # "string"
     THEN /\ sendError(<<"question.toLowerCase is not a function">>)
          /\ UNCHANGED events
     ELSE IF isSchemaQuestion(m.v)
     THEN /\ sqlQuery' = Str(SCHEMA_QUESTION)
          /\ pc' = "translated"
          /\ UNCHANGED <<content, toolResult, toolError, sqlResult,
                         formattedResponse, res, responsesSent, events>>
     ELSE /\ log(<<"translate.call">>)
          /\ pc' = "await_translation"
          /\ UNCHANGED <<locals, res, responsesSent>>

\* lines 164-200: the translation completion returns with text content
TranslationReturns(c) ==
  /\ pc = "await_translation"
  /\ log(<<"translate.return">>)
  /\ LET r == translateCompletion(c)
     IN  IF r.kind = "return"
         THEN /\ content' = Str(c)
              /\ sqlQuery' = Str(r.value)
              /\ pc' = "translated"
              /\ UNCHANGED <<toolResult, toolError, sqlResult, formattedResponse,
                             res, responsesSent>>
         ELSE sendError(r.message)
  /\ UNCHANGED <<message, toolSql>>

\* line 164: the completion has null content, .trim() throws a TypeError
TranslationReturnsNull ==
  /\ pc = "await_translation"
  /\ log(<<"translate.return">>)
  /\ sendError(<<"Cannot read properties of null (reading 'trim')">>)
  /\ UNCHANGED <<message, toolSql>>

\* a translator that calls the completion API again after a failure
TranslationThrows_retried(e) ==
  /\ pc = "await_translation"
  /\ translationCalls < 3
  /\ log(<<"translate.throw", "translate.call">>)
  /\ UNCHANGED <<pc, message, locals, res, responsesSent, toolSql>>

\* lines 201-204: the completion call throws; the translator rethrows
TranslationThrows(e) ==
  /\ pc = "await_translation"
  /\ log(<<"translate.throw">>)
  /\ sendError(e)
  /\ UNCHANGED <<message, toolSql>>

\* a schema branch that reports the sentinel as the sql of the response
SchemaBranch_reportsSql ==
  /\ pc = "translated"
  /\ sqlQuery = Str(SCHEMA_QUESTION)
  /\ res' = [status |-> 200,
             body |-> [success |-> TRUE,
                       response |-> handleSchemaQuestion(message.v),
                       sql |-> sqlQuery,
                       rawData |-> Null]]
  /\ responsesSent' = responsesSent + 1
  /\ pc' = "done"
  /\ handlerReturns
  /\ UNCHANGED <<message, events, toolSql>>

\* lines 362-374: the schema branch of the handler
SchemaBranch ==
  /\ pc = "translated"
  /\ sqlQuery = Str(SCHEMA_QUESTION)
  /\ res' = [status |-> 200,
             body |-> [success |-> TRUE,
                       response |-> handleSchemaQuestion(message.v),
                       sql |-> Null,
                       rawData |-> Null]]
  /\ responsesSent' = responsesSent + 1
  /\ pc' = "done"
  /\ handlerReturns
  /\ UNCHANGED <<message, events, toolSql>>

\* lines 377 and 207-227: executeSQLQuery starts and awaits client.connect
ExecuteStart ==
  /\ pc = "translated"
  /\ sqlQuery # Str(SCHEMA_QUESTION)
  /\ log(<<"connect.call">>)
  /\ content' = Undefined
  /\ pc' = "await_connect"
  /\ UNCHANGED <<message, sqlQuery, toolResult, toolError, sqlResult,
                 formattedResponse, res, responsesSent, toolSql>>

\* lines 227-233: connected; client.callTool({name: "query", arguments: {sql}})
ConnectReturns ==
  /\ pc = "await_connect"
  /\ log(<<"connect.return", "tool.call">>)
  /\ toolSql' = sqlQuery
  /\ pc' = "await_tool"
  /\ UNCHANGED <<message, locals, res, responsesSent>>

\* lines 227 and 248-251: client.connect throws; the outer catch wraps it
ConnectThrows(e) ==
  /\ pc = "await_connect"
  /\ log(<<"connect.throw">>)
  /\ sendError(Wrap(e))
  /\ UNCHANGED <<message, toolSql>>

\* lines 230-235: the tool call returns; await client.close()
ToolReturns(result) ==
  /\ pc = "await_tool"
  /\ log(<<"tool.return", "close.call">>)
  /\ toolResult' = result
  /\ pc' = "await_close"
  /\ UNCHANGED <<message, content, sqlQuery, toolError, sqlResult,
                 formattedResponse, res, responsesSent, toolSql>>

\* a tool failure that is swallowed: the executor goes on with an empty result
ToolThrows_swallowed(e) ==
  /\ pc = "await_tool"
  /\ log(<<"tool.throw", "close.call">>)
  /\ toolResult' = [content |-> Undefined]
  /\ pc' = "await_close"
  /\ UNCHANGED <<message, content, sqlQuery, toolError, sqlResult,
                 formattedResponse, res, responsesSent, toolSql>>

\* lines 243-244: the tool call throws; catch (toolError) { await client.close()
ToolThrows(e) ==
  /\ pc = "await_tool"
  /\ log(<<"tool.throw", "close.call">>)
  /\ toolError' = e
  /\ pc' = "await_close_in_catch"
  /\ UNCHANGED <<message, content, sqlQuery, toolResult, sqlResult,
                 formattedResponse, res, responsesSent, toolSql>>

\* lines 235-241: close returns on the success path; the result is returned
\* (the locals of executeSQLQuery end)
CloseReturns ==
  /\ pc = "await_close"
  /\ log(<<"close.return">>)
  /\ sqlResult' = normalize(toolResult)
  /\ toolResult' = Undefined
  /\ pc' = "executed"
  /\ UNCHANGED <<message, content, sqlQuery, toolError, formattedResponse, res,
                 responsesSent, toolSql>>

\* lines 235 and 243-244: close throws inside the inner try, so the inner
\* catch takes the close error as toolError and calls client.close() again
\* (result is scoped to the try block and ends here)
CloseThrows(e) ==
  /\ pc = "await_close"
  /\ log(<<"close.throw", "close.call">>)
  /\ toolError' = e
  /\ toolResult' = Undefined
  /\ pc' = "await_close_in_catch"
  /\ UNCHANGED <<message, content, sqlQuery, sqlResult, formattedResponse, res,
                 responsesSent, toolSql>>

\* lines 244-251: close returns in the catch; toolError is rethrown and wrapped
CatchCloseReturns ==
  /\ pc = "await_close_in_catch"
  /\ log(<<"close.return">>)
  /\ sendError(Wrap(toolError))
  /\ UNCHANGED <<message, toolSql>>

\* lines 244 and 248-251: close throws in the catch; that error is wrapped
CatchCloseThrows(e) ==
  /\ pc = "await_close_in_catch"
  /\ log(<<"close.throw">>)
  /\ sendError(Wrap(e))
  /\ UNCHANGED <<message, toolSql>>

\* a formatResponse without the success check of lines 256-258
FormatResponse_noSuccessCheck ==
  /\ pc = "executed"
  /\ log(<<"narrate.call">>)
  /\ pc' = "await_narration"
  /\ UNCHANGED <<message, content, sqlQuery, toolResult, toolError, sqlResult,
                 formattedResponse, res, responsesSent, toolSql>>

\* lines 254-286: formatResponse starts
FormatResponse ==
  /\ pc = "executed"
  /\ IF ~sqlResult.success
     THEN /\ formattedResponse' = Apology
          /\ pc' = "formatted"
          /\ UNCHANGED events
     ELSE /\ log(<<"narrate.call">>)
          /\ pc' = "await_narration"
          /\ UNCHANGED formattedResponse
  /\ UNCHANGED <<message, content, sqlQuery, toolResult, toolError, sqlResult,
                 res, responsesSent, toolSql>>

\* line 288: the narration completion returns; its trimmed text is returned
NarrationReturns(c) ==
  /\ pc = "await_narration"
  /\ log(<<"narrate.return">>)
  /\ formattedResponse' = Str(trim(c))
  /\ pc' = "formatted"
  /\ UNCHANGED <<message, content, sqlQuery, toolResult, toolError, sqlResult,
                 res, responsesSent, toolSql>>

\* a formatResponse whose catch rethrows instead of falling back
NarrationThrows_rethrown(e) ==
  /\ pc = "await_narration"
  /\ log(<<"narrate.throw">>)
  /\ sendError(e)
  /\ UNCHANGED <<message, toolSql>>

\* lines 289-296: the narration call throws; the catch returns the fallback
NarrationThrows(e) ==
  /\ pc = "await_narration"
  /\ log(<<"narrate.throw">>)
  /\ formattedResponse' = fallbackText(sqlResult)
  /\ pc' = "formatted"
  /\ UNCHANGED <<message, content, sqlQuery, toolResult, toolError, sqlResult,
                 res, responsesSent, toolSql>>

\* a handler that returns on the success path without res.json
Respond_noResponse ==
  /\ pc = "formatted"
  /\ pc' = "done"
  /\ handlerReturns
  /\ UNCHANGED <<message, res, responsesSent, events, toolSql>>

\* lines 384-389: the success response
Respond ==
  /\ pc = "formatted"
  /\ res' = [status |-> 200,
             body |-> [success |-> TRUE,
                       response |-> formattedResponse,
                       sql |-> sqlQuery,
                       rawData |-> sqlResult.data]]
  /\ responsesSent' = responsesSent + 1
  /\ pc' = "done"
  /\ handlerReturns
  /\ UNCHANGED <<message, events, toolSql>>

\* the server takes the next request; nothing of the last one is kept
NextRequest ==
  /\ pc = "done"
  /\ pc' = "idle"
  /\ message' = Undefined
  /\ res' = NoResponse
  /\ responsesSent' = 0
  /\ events' = <<>>
  /\ toolSql' = Undefined
  /\ UNCHANGED locals

Next ==
  \/ \E m \in Messages : PostChat(m) /\ UNCHANGED outside
  \/ \E c \in Completions : TranslationReturns(c) /\ UNCHANGED outside
  \/ TranslationReturnsNull /\ UNCHANGED outside
  \/ \E e \in ExternalErrors : TranslationThrows(e) /\ UNCHANGED outside
  \/ SchemaBranch /\ UNCHANGED outside
  \/ ExecuteStart /\ UNCHANGED outside
  \/ ConnectReturns /\ UNCHANGED outside
  \/ \E e \in ExternalErrors : ConnectThrows(e) /\ UNCHANGED outside
  \/ \E r \in ToolResults : ToolReturns(r) /\ UNCHANGED outside
  \/ \E e \in ExternalErrors : ToolThrows(e) /\ UNCHANGED outside
  \/ CloseReturns /\ UNCHANGED outside
  \/ \E e \in ExternalErrors : CloseThrows(e) /\ UNCHANGED outside
  \/ CatchCloseReturns /\ UNCHANGED outside
  \/ \E e \in ExternalErrors : CatchCloseThrows(e) /\ UNCHANGED outside
  \/ FormatResponse /\ UNCHANGED outside
  \/ \E c \in NarrationTexts : NarrationReturns(c) /\ UNCHANGED outside
  \/ \E e \in ExternalErrors : NarrationThrows(e) /\ UNCHANGED outside
  \/ Respond /\ UNCHANGED outside
  \/ NextRequest /\ UNCHANGED outside

Spec == Init /\ [][Next]_vars



(***************************************************************************)
(* formatResponse on its own: every QueryResult, also success:false, which *)
(* executeSQLQuery never returns.                                          *)
(***************************************************************************)
QueryData ==
  {c \in ToolContents : truthy(c)} \cup {Obj(c) : c \in {c \in ToolContents : ~truthy(c)}}

QueryResults == [success : BOOLEAN, data : QueryData, rowCount : 0..MaxRows]

InitFormat ==
  /\ pc = "executed"
  /\ message \in {Str(q) : q \in Questions \ {<<>>}}
  /\ sqlResult \in QueryResults
  /\ content = Undefined
  /\ sqlQuery = Undefined
  /\ toolResult = Undefined
  /\ toolError = <<>>
  /\ formattedResponse = Undefined
  /\ res = NoResponse
  /\ responsesSent = 0
  /\ events = <<>>
  /\ toolSql = Undefined
  /\ outcomes = <<>>
  /\ suspended = <<>>
  /\ AwsOff
  /\ SvcOff
  /\ LogsOff
  /\ UiOff

NextFormat ==
  \/ FormatResponse /\ UNCHANGED outside
  \/ \E c \in NarrationTexts : NarrationReturns(c) /\ UNCHANGED outside
  \/ \E e \in ExternalErrors : NarrationThrows(e) /\ UNCHANGED outside

SpecFormat == InitFormat /\ [][NextFormat]_vars

(***************************************************************************)
(* Several POST /chat requests at once. The handler and the functions it   *)
(* calls keep everything in locals (the MCP client and its transport are   *)
(* created per call, lines 215-225), so a waiting request is its locals.   *)
(***************************************************************************)
MaxRequests == 2

\* the locals of the request whose continuation runs
frame ==
  [pc |-> pc, message |-> message, content |-> content, sqlQuery |-> sqlQuery,
   toolResult |-> toolResult, toolError |-> toolError, sqlResult |-> sqlResult,
   formattedResponse |-> formattedResponse, res |-> res,
   responsesSent |-> responsesSent, events |-> events, toolSql |-> toolSql,
   outcomes |-> outcomes]

\* a request that has not arrived yet
idleRequest ==
  [pc |-> "idle", message |-> Undefined, content |-> Undefined,
   sqlQuery |-> Undefined, toolResult |-> Undefined, toolError |-> <<>>,
   sqlResult |-> Undefined, formattedResponse |-> Undefined, res |-> NoResponse,
   responsesSent |-> 0, events |-> <<>>, toolSql |-> Undefined,
   outcomes |-> <<>>]

\* what an external call of the request did
Returned(call, value) == [call |-> call, kind |-> "return", value |-> value]
Threw(call, e) == [call |-> call, kind |-> "throw", value |-> [t |-> "error", message |-> e]]

\* the request notes the outcome of its own call; nothing else changes
record(o) ==
  /\ outcomes' = Append(outcomes, o)
  /\ UNCHANGED <<suspended, awsVars, svcVars, logVars, uiVars>>

ConcMessages ==
  { Undefined,
    Str(<<"A","d","d"," ","C","o","l","u","m","n"," ">>),
    Str(<<"p","a","r","e","n","t"," ","p","h","o","n","e"," ">>) }

ConcCompletions ==
  { <<"S","e","l","e","c","t"," ","1">>,
    <<"D","E","L","E","T","E"," ","F","R","O","M"," ","t">> }

\* a module-level sqlQuery: the running continuation finds the value the last
\* continuation left, whichever request that one belonged to
Switch_sharedSqlQuery(i) ==
  /\ suspended' = [suspended EXCEPT ![i] = frame]
  /\ pc' = suspended[i].pc
  /\ message' = suspended[i].message
  /\ content' = suspended[i].content
  /\ sqlQuery' = sqlQuery
  /\ toolResult' = suspended[i].toolResult
  /\ toolError' = suspended[i].toolError
  /\ sqlResult' = suspended[i].sqlResult
  /\ formattedResponse' = suspended[i].formattedResponse
  /\ res' = suspended[i].res
  /\ responsesSent' = suspended[i].responsesSent
  /\ events' = suspended[i].events
  /\ toolSql' = suspended[i].toolSql
  /\ outcomes' = suspended[i].outcomes
  /\ UNCHANGED <<awsVars, svcVars, logVars, uiVars>>

\* line 349, async (req, res): the running continuation has reached an await
\* or returned, and the event loop runs the continuation of request i
Switch(i) ==
  /\ suspended' = [suspended EXCEPT ![i] = frame]
  /\ pc' = suspended[i].pc
  /\ message' = suspended[i].message
  /\ content' = suspended[i].content
  /\ sqlQuery' = suspended[i].sqlQuery
  /\ toolResult' = suspended[i].toolResult
  /\ toolError' = suspended[i].toolError
  /\ sqlResult' = suspended[i].sqlResult
  /\ formattedResponse' = suspended[i].formattedResponse
  /\ res' = suspended[i].res
  /\ responsesSent' = suspended[i].responsesSent
  /\ events' = suspended[i].events
  /\ toolSql' = suspended[i].toolSql
  /\ outcomes' = suspended[i].outcomes
  /\ UNCHANGED <<awsVars, svcVars, logVars, uiVars>>

InitConc ==
  /\ pc = "idle"
  /\ message = Undefined
  /\ content = Undefined
  /\ sqlQuery = Undefined
  /\ toolResult = Undefined
  /\ toolError = <<>>
  /\ sqlResult = Undefined
  /\ formattedResponse = Undefined
  /\ res = NoResponse
  /\ responsesSent = 0
  /\ events = <<>>
  /\ toolSql = Undefined
  /\ outcomes = <<>>
  /\ suspended = [i \in 1..(MaxRequests - 1) |-> idleRequest]
  /\ AwsOff
  /\ SvcOff
  /\ LogsOff
  /\ UiOff

NextConc ==
  \/ \E m \in ConcMessages : PostChat(m) /\ UNCHANGED outside
  \/ \E c \in ConcCompletions :
       TranslationReturns(c) /\ record(Returned("translate", Str(c)))
  \/ TranslationReturnsNull /\ record(Returned("translate", Null))
  \/ \E e \in {<<"ECONNRESET">>} : TranslationThrows(e) /\ record(Threw("translate", e))
  \/ SchemaBranch /\ UNCHANGED outside
  \/ ExecuteStart /\ UNCHANGED outside
  \/ ConnectReturns /\ record(Returned("connect", Undefined))
  \/ \E e \in {<<"ECONNRESET">>} : ConnectThrows(e) /\ record(Threw("connect", e))
  \/ \E r \in {[content |-> Arr(<<"row">>)]} : ToolReturns(r) /\ record(Returned("tool", r))
  \/ \E e \in {<<"ECONNRESET">>} : ToolThrows(e) /\ record(Threw("tool", e))
  \/ CloseReturns /\ record(Returned("close", Undefined))
  \/ \E e \in {<<"ECONNRESET">>} : CloseThrows(e) /\ record(Threw("close", e))
  \/ CatchCloseReturns /\ record(Returned("close", Undefined))
  \/ \E e \in {<<"ECONNRESET">>} : CatchCloseThrows(e) /\ record(Threw("close", e))
  \/ FormatResponse /\ UNCHANGED outside
  \/ \E c \in {<<"3"," ","r","o","w","s">>} :
       NarrationReturns(c) /\ record(Returned("narrate", Str(c)))
  \/ \E e \in {<<"ECONNRESET">>} : NarrationThrows(e) /\ record(Threw("narrate", e))
  \/ Respond /\ UNCHANGED outside
  \/ \E i \in 1..Len(suspended) : Switch(i)

SpecConc == InitConc /\ [][NextConc]_vars

(***************************************************************************)
(* One request at a time under fairness: every external call eventually    *)
(* returns or throws, and the event loop then runs the continuation of the *)
(* handler. The inputs are a few of each kind, one for every path.         *)
(***************************************************************************)
NextLive ==
  \/ \E m \in ConcMessages : PostChat(m) /\ UNCHANGED outside
  \/ \E c \in ConcCompletions \cup {INVALID_QUERY} :
       TranslationReturns(c) /\ UNCHANGED outside
  \/ TranslationReturnsNull /\ UNCHANGED outside
  \/ \E e \in ExternalErrors : TranslationThrows(e) /\ UNCHANGED outside
  \/ SchemaBranch /\ UNCHANGED outside
  \/ ExecuteStart /\ UNCHANGED outside
  \/ ConnectReturns /\ UNCHANGED outside
  \/ \E e \in ExternalErrors : ConnectThrows(e) /\ UNCHANGED outside
  \/ \E r \in ToolResults : ToolReturns(r) /\ UNCHANGED outside
  \/ \E e \in ExternalErrors : ToolThrows(e) /\ UNCHANGED outside
  \/ CloseReturns /\ UNCHANGED outside
  \/ \E e \in ExternalErrors : CloseThrows(e) /\ UNCHANGED outside
  \/ CatchCloseReturns /\ UNCHANGED outside
  \/ \E e \in ExternalErrors : CatchCloseThrows(e) /\ UNCHANGED outside
  \/ FormatResponse /\ UNCHANGED outside
  \/ \E c \in NarrationTexts : NarrationReturns(c) /\ UNCHANGED outside
  \/ \E e \in ExternalErrors : NarrationThrows(e) /\ UNCHANGED outside
  \/ Respond /\ UNCHANGED outside
  \/ NextRequest /\ UNCHANGED outside

\* At every point of a request that is under way one of these steps can be
\* taken: at an await the call can throw, elsewhere the handler runs on.
Unblocked ==
  \/ \E e \in ExternalErrors : TranslationThrows(e)
  \/ SchemaBranch
  \/ ExecuteStart
  \/ \E e \in ExternalErrors : ConnectThrows(e)
  \/ \E e \in ExternalErrors : ToolThrows(e)
  \/ \E e \in ExternalErrors : CloseThrows(e)
  \/ \E e \in ExternalErrors : CatchCloseThrows(e)
  \/ FormatResponse
  \/ \E e \in ExternalErrors : NarrationThrows(e)
  \/ Respond

\* No external call stays pending for ever and the event loop runs the
\* continuations. Every step of a request leaves the point the request is at,
\* so weak fairness of Unblocked says exactly that a request does not stay at
\* one point for ever: a call that returns leaves its await as well as one that
\* throws. New requests need not arrive.
SpecLive ==
  Init /\ [][NextLive]_vars /\ WF_vars(Unblocked /\ UNCHANGED outside)

(***************************************************************************)
(* The AWS dashboard server: start-up, the /api/aws endpoints in demo and  *)
(* in live mode, and listCloudFormationStacks of the aws-service.          *)
(***************************************************************************)
\* the endpoints under /api/aws
Endpoints ==
  { "identity", "accounts", "stacks", "stack", "stackResources",
    "accountApiGateway", "stackApiGateway", "logs", "controllableResources",
    "start", "stop", "costAnalysis", "test" }

\* the endpoints that answer 503 while awsInitialized is false
NotConnectedEndpoints == {"identity", "accounts", "stack", "stackResources", "test"}

\* the aws-service method each endpoint awaits in live mode
serviceMethod(endpoint) ==
  CASE endpoint = "identity" -> "getCallerIdentity"
    [] endpoint = "accounts" -> "getAllAccounts"
    [] endpoint = "stacks" -> "listCloudFormationStacks"
    [] endpoint = "stack" -> "describeCloudFormationStack"
    [] endpoint = "stackResources" -> "getStackResources"
    [] endpoint = "accountApiGateway" -> "getApiGatewayApis"
    [] endpoint = "stackApiGateway" -> "getApiGatewayApisByStack"
    [] endpoint = "logs" -> "getStackCloudWatchLogs"
    [] endpoint = "controllableResources" -> "getStackControllableResources"
    [] endpoint = "start" -> "startStackResources"
    [] endpoint = "stop" -> "stopStackResources"
    [] endpoint = "costAnalysis" -> "getStackCostAnalysis"
    [] endpoint = "test" -> "getCallerIdentity"

\* a stack as ListStacks and the demo payload give it. A name is the sequence
\* of its pieces, times are instants, and LastUpdatedTime 0 stands for a stack
\* that was never updated (null)
Stack(name, status, created, updated) ==
  [StackName |-> name, StackStatus |-> status,
   CreationTime |-> created, LastUpdatedTime |-> updated]

\* the stacks of the demo payload
DemoStacks ==
  << Stack(<<"demo-", "web-app-stack">>,
           "CREATE_COMPLETE", 15, 20),
     Stack(<<"demo-", "database-stack">>,
           "UPDATE_COMPLETE", 10, 25),
     Stack(<<"demo-", "monitoring-stack">>,
           "CREATE_COMPLETE", 12, 18) >>

\* demo data with success:true where the server answers 503
NotConnectedResponse_demo ==
  [status |-> 200,
   body |-> [success |-> TRUE, demoMode |-> TRUE,
             data |-> Literal("demo data")]]

\* the 503 of the endpoints without demo data
NotConnectedResponse ==
  [status |-> 503,
   body |-> [success |-> FALSE,
             error |-> Literal("AWS service not connected"),
             message |-> Literal("AWS service is not available. Check your credentials and try again.")]]

\* a stacks endpoint whose demo payload lacks the demo mark
demoResponse_unmarked(endpoint) ==
  IF endpoint = "stacks"
  THEN [status |-> 200,
        body |-> [success |-> TRUE, stackCount |-> 3, stacks |-> DemoStacks,
                  isDemo |-> FALSE,
                  message |-> Literal("Demo mode - configure AWS credentials in .env file to see real stacks")]]
  ELSE [status |-> 200,
        body |-> [success |-> TRUE, demoMode |-> TRUE,
                  data |-> Literal("demo data of the endpoint")]]

\* the fixed answer of an endpoint while awsInitialized is false
demoResponse(endpoint) ==
  IF endpoint \in NotConnectedEndpoints THEN NotConnectedResponse
  ELSE IF endpoint = "stacks"
  THEN [status |-> 200,
        body |-> [success |-> TRUE, stackCount |-> 3, stacks |-> DemoStacks,
                  isDemo |-> TRUE,
                  message |-> Literal("Demo mode - configure AWS credentials in .env file to see real stacks")]]
  ELSE [status |-> 200,
        body |-> [success |-> TRUE, demoMode |-> TRUE,
                  data |-> Literal("demo data of the endpoint")]]

\* the stacks CloudFormation holds in each region
StackSummariesIn(region) ==
  CASE region = <<"us-east-1">> ->
         << Stack(<<"east-app">>, "CREATE_COMPLETE", 1, 0),
            Stack(<<"east-old">>, "DELETE_COMPLETE", 1, 2) >>
    [] region = <<"us-west-2">> ->
         << Stack(<<"west-db">>, "CREATE_COMPLETE", 2, 0),
            Stack(<<"west-db">>, "UPDATE_COMPLETE", 1, 3),
            Stack(<<"west-api">>, "UPDATE_COMPLETE", 1, 4) >>
    [] OTHER ->
         << Stack(<<"eu-app">>, "CREATE_COMPLETE", 5, 0),
            Stack(<<"eu-app">>, "UPDATE_COMPLETE", 1, 4),
            Stack(<<"eu-app">>, "ROLLBACK_COMPLETE", 2, 5) >>

\* lines 44 and 51: the region the default clients are bound to
clientRegion == IF truthy(defaultRegion) THEN defaultRegion.v ELSE <<"us-east-1">>

\* what ListStacks answers: the stacks of the client's region, those of a
\* status in StackStatusFilter when the filter is given
ListStacksResponse(region, filter) ==
  LET keep(st) == filter = {} \/ <<st.StackStatus>> \in filter
  IN  SelectSeq(StackSummariesIn(region), keep)

\* a reducer that compares the creation times only
updatedOrCreated_creationOnly(st) == st.CreationTime

\* line 349: current.LastUpdatedTime || current.CreationTime
updatedOrCreated(st) ==
  IF st.LastUpdatedTime # 0 THEN st.LastUpdatedTime ELSE st.CreationTime

\* lines 342-356: the reducer that removes duplicate names
RECURSIVE uniqueStacks(_, _)
uniqueStacks(acc, rest) ==
  IF rest = <<>> THEN acc
  ELSE LET current == Head(rest)
           found == {i \in 1..Len(acc) : acc[i].StackName = current.StackName}
       IN  IF found = {}
           THEN uniqueStacks(Append(acc, current), Tail(rest))
           ELSE LET index == Min(found)
                IN  IF updatedOrCreated(current) > updatedOrCreated(acc[index])
                    THEN uniqueStacks([acc EXCEPT ![index] = current], Tail(rest))
                    ELSE uniqueStacks(acc, Tail(rest))

\* lines 327-365: the result listCloudFormationStacks makes of the response
listCloudFormationStacksResult(summaries, options) ==
  LET notDeleted(st) == st.StackStatus # "DELETE_COMPLETE"
      unique == uniqueStacks(<<>>, SelectSeq(summaries, notDeleted))
  IN  [success |-> TRUE, stackCount |-> Len(unique), stacks |-> unique,
       region |-> clientRegion]

\* error.message of an error thrown by an AWS call
AwsErrors == { <<"AccessDenied">>, <<"">> }

InitAws ==
  /\ awsPc = "starting"
  /\ awsInitialized = FALSE
  /\ defaultRegion \in {Undefined, Str(<<"us-west-2">>), Str(<<"eu-west-1">>)}
  /\ awsReq = [endpoint |-> "none"]
  /\ awsRes = NoResponse
  /\ awsCalls = <<>>
  /\ pc = "idle"
  /\ message = Undefined
  /\ content = Undefined
  /\ sqlQuery = Undefined
  /\ toolResult = Undefined
  /\ toolError = <<>>
  /\ sqlResult = Undefined
  /\ formattedResponse = Undefined
  /\ res = NoResponse
  /\ responsesSent = 0
  /\ events = <<>>
  /\ toolSql = Undefined
  /\ outcomes = <<>>
  /\ suspended = <<>>
  /\ SvcOff
  /\ LogsOff
  /\ UiOff

\* lines 1875-1883 and 2545-2548: awsService.initialize() returns, then listen
InitializeAWSReturns(connected) ==
  /\ awsPc = "starting"
  /\ awsInitialized' = connected
  /\ awsPc' = "listening"
  /\ UNCHANGED <<defaultRegion, awsReq, awsRes, awsCalls>>

\* lines 1884-1887: awsService.initialize() throws
InitializeAWSThrows ==
  /\ awsPc = "starting"
  /\ awsInitialized' = FALSE
  /\ awsPc' = "listening"
  /\ UNCHANGED <<defaultRegion, awsReq, awsRes, awsCalls>>

\* lines 1985-1995: the options the stacks handler builds from req.query
stackOptions(req) ==
  [region |-> req.region,
   stackStatusFilter |-> IF truthy(req.status) THEN {req.status.v} ELSE {}]

\* the handlers up to their first await: the demo answer when not connected,
\* else the call of the service method. listCloudFormationStacks (lines
\* 305-325) sends ListStacks with this.cloudFormationClient, since the stacks
\* handler never sets options.accountId
Request(endpoint, region, status) ==
  /\ awsPc = "listening"
  /\ awsReq' = [endpoint |-> endpoint, region |-> region, status |-> status]
  /\ IF ~awsInitialized
     THEN /\ awsRes' = demoResponse(endpoint)
          /\ awsPc' = "responded"
          /\ awsCalls' = <<>>
     ELSE /\ awsRes' = NoResponse
          /\ awsPc' = "await_service"
          /\ awsCalls' =
               IF endpoint = "stacks"
               THEN << [command |-> "ListStacks",
                        region |-> clientRegion,
                        filter |-> stackOptions(awsReq').stackStatusFilter] >>
               ELSE << [command |-> serviceMethod(endpoint),
                        region |-> clientRegion, filter |-> {}] >>
  /\ UNCHANGED <<awsInitialized, defaultRegion>>

\* lines 325-365 and 1998-2000: ListStacks answers and the result is sent
ListStacksReturns ==
  /\ awsPc = "await_service"
  /\ awsReq.endpoint = "stacks"
  /\ awsRes' = [status |-> 200,
                body |-> listCloudFormationStacksResult(
                           ListStacksResponse(awsCalls[1].region, awsCalls[1].filter),
                           stackOptions(awsReq))]
  /\ awsPc' = "responded"
  /\ UNCHANGED <<awsInitialized, defaultRegion, awsReq, awsCalls>>

\* lines 366-368 and 2001-2007: ListStacks fails
ListStacksThrows(e) ==
  /\ awsPc = "await_service"
  /\ awsReq.endpoint = "stacks"
  /\ awsRes' = [status |-> 500,
                body |-> [success |-> FALSE,
                          error |-> <<"Failed to list CloudFormation stacks: ">> \o e]]
  /\ awsPc' = "responded"
  /\ UNCHANGED <<awsInitialized, defaultRegion, awsReq, awsCalls>>

\* res.json(result) of the other handlers
ServiceReturns(result) ==
  /\ awsPc = "await_service"
  /\ awsReq.endpoint # "stacks"
  /\ awsRes' = [status |-> 200, body |-> result]
  /\ awsPc' = "responded"
  /\ UNCHANGED <<awsInitialized, defaultRegion, awsReq, awsCalls>>

\* a catch that also falls back to demo mode when an AWS call fails
ServiceThrows_disconnects(e) ==
  /\ awsPc = "await_service"
  /\ awsReq.endpoint # "stacks"
  /\ awsRes' = [status |-> 500, body |-> [success |-> FALSE, error |-> e]]
  /\ awsPc' = "responded"
  /\ awsInitialized' = FALSE
  /\ UNCHANGED <<defaultRegion, awsReq, awsCalls>>

\* the catch of the other handlers: res.status(500).json({success:false, error})
ServiceThrows(e) ==
  /\ awsPc = "await_service"
  /\ awsReq.endpoint # "stacks"
  /\ awsRes' = [status |-> 500, body |-> [success |-> FALSE, error |-> e]]
  /\ awsPc' = "responded"
  /\ UNCHANGED <<awsInitialized, defaultRegion, awsReq, awsCalls>>

\* the server waits for the next request
NextAwsRequest ==
  /\ awsPc = "responded"
  /\ awsPc' = "listening"
  /\ awsReq' = [endpoint |-> "none"]
  /\ awsRes' = NoResponse
  /\ awsCalls' = <<>>
  /\ UNCHANGED <<awsInitialized, defaultRegion>>

NextAws ==
  \/ \E connected \in BOOLEAN :
       InitializeAWSReturns(connected) /\ UNCHANGED <<chatVars, outcomes, suspended, svcVars, logVars, uiVars>>
  \/ InitializeAWSThrows /\ UNCHANGED <<chatVars, outcomes, suspended, svcVars, logVars, uiVars>>
  \/ \E endpoint \in Endpoints \ {"stacks"} :
       Request(endpoint, Undefined, Undefined) /\ UNCHANGED <<chatVars, outcomes, suspended, svcVars, logVars, uiVars>>
  \/ \E region \in {Undefined, Str(<<"us-east-1">>), Str(<<"us-west-2">>)},
        status \in {Undefined, Str(<<"CREATE_COMPLETE">>)} :
       Request("stacks", region, status) /\ UNCHANGED <<chatVars, outcomes, suspended, svcVars, logVars, uiVars>>
  \/ ListStacksReturns /\ UNCHANGED <<chatVars, outcomes, suspended, svcVars, logVars, uiVars>>
  \/ \E e \in AwsErrors : ListStacksThrows(e) /\ UNCHANGED <<chatVars, outcomes, suspended, svcVars, logVars, uiVars>>
  \/ \E r \in {[success |-> TRUE, data |-> Literal("live data")]} : ServiceReturns(r) /\ UNCHANGED <<chatVars, outcomes, suspended, svcVars, logVars, uiVars>>
  \/ \E e \in AwsErrors : ServiceThrows(e) /\ UNCHANGED <<chatVars, outcomes, suspended, svcVars, logVars, uiVars>>
  \/ NextAwsRequest /\ UNCHANGED <<chatVars, outcomes, suspended, svcVars, logVars, uiVars>>

SpecAws == InitAws /\ [][NextAws]_vars

(***************************************************************************)
(* The per-stack fan-outs of the aws-service: getStackControllableResources *)
(* asks for the status of every controllable resource, startStackResources  *)
(* and stopStackResources then send one command per selected resource. The  *)
(* callbacks of Promise.all run together; their AWS calls end in any order. *)
(***************************************************************************)
MaxResources == 2

\* StackResources[].ResourceType; the last one is not controllable
ResourceTypes ==
  { "AWS::EC2::Instance", "AWS::RDS::DBInstance", "AWS::ECS::Service",
    "AWS::AutoScaling::AutoScalingGroup", "AWS::S3::Bucket" }

\* lines 970-976: the filter for controllable resources
isControllable(type) ==
  type \in { "AWS::EC2::Instance", "AWS::RDS::DBInstance", "AWS::RDS::DBCluster",
             "AWS::ECS::Service", "AWS::AutoScaling::AutoScalingGroup" }

\* StackResources of a DescribeStackResources response with these types; the
\* PhysicalResourceId of a resource is r and its position
StackResourcesOf(types) ==
  [i \in 1..Len(types) |->
     [PhysicalResourceId |-> <<"r1", "r2", "r3", "r4">>[i], ResourceType |-> types[i]]]

\* an AWS call of a callback returned (status and desiredCount as observed)
Observed(status, desiredCount) ==
  [kind |-> "return", status |-> status, desiredCount |-> desiredCount,
   message |-> <<>>]

\* an AWS call of a callback threw
Failed(e) == [kind |-> "throw", status |-> "", desiredCount |-> 0, message |-> e]

\* a callback that makes no AWS call
NoCall == [kind |-> "none", status |-> "", desiredCount |-> 0, message |-> <<>>]

\* what the describe call of a resource of the type can answer; status ""
\* stands for a response without the instance, and a service is observed by
\* its desiredCount
Observations(type) ==
  CASE type = "AWS::EC2::Instance" ->
         {Observed("running", 0), Observed("stopped", 0), Observed("", 0)}
    [] type = "AWS::RDS::DBInstance" ->
         {Observed("available", 0), Observed("stopped", 0)}
    [] type = "AWS::ECS::Service" ->
         {Observed("service", 0), Observed("service", 1)}
    [] OTHER -> {}

\* lines 984-1073: the entry of a resource whose status was obtained
statusEntry(resource, o) ==
  LET type == resource.ResourceType
      found == o.kind = "return" /\ o.status # ""
      status ==
        IF ~found THEN "unknown"
        ELSE IF type = "AWS::ECS::Service"
        THEN (IF o.desiredCount > 0 THEN "running" ELSE "stopped")
        ELSE o.status
      canStart ==
        /\ found
        /\ IF type = "AWS::ECS::Service" THEN o.desiredCount = 0
           ELSE status = "stopped"
      canStop ==
        /\ found
        /\ IF type = "AWS::ECS::Service" THEN o.desiredCount > 0
           ELSE IF type = "AWS::EC2::Instance" THEN status = "running"
           ELSE status = "available"
  IN  [physicalResourceId |-> resource.PhysicalResourceId,
       resourceType |-> type,
       currentStatus |-> status,
       canStart |-> canStart,
       canStop |-> canStop,
       error |-> <<>>]

\* lines 1074-1086: the entry of a resource whose describe call threw
statusErrorEntry(resource, e) ==
  [physicalResourceId |-> resource.PhysicalResourceId,
   resourceType |-> resource.ResourceType,
   currentStatus |-> "error",
   canStart |-> FALSE,
   canStop |-> FALSE,
   error |-> e]

\* lines 1145-1165 and 1228-1259: the command a callback sends for a resource
commandFor(op, type) ==
  IF op = "startStackResources"
  THEN CASE type = "AWS::EC2::Instance" -> "StartInstances"
         [] type = "AWS::RDS::DBInstance" -> "StartDBInstance"
         [] type = "AWS::RDS::DBCluster" -> "StartDBCluster"
         [] OTHER -> "none"
  ELSE CASE type = "AWS::EC2::Instance" -> "StopInstances"
         [] type = "AWS::RDS::DBInstance" -> "StopDBInstance"
         [] type = "AWS::RDS::DBCluster" -> "StopDBCluster"
         [] type = "AWS::ECS::Service" -> "UpdateService"
         [] OTHER -> "none"

action(op) == IF op = "startStackResources" THEN "start" ELSE "stop"

\* the entry of a selected resource in results
resultEntry(op, resource, status, e) ==
  [resourceId |-> resource.physicalResourceId, action |-> action(op),
   status |-> status, error |-> e]

\* a selection that passes every resource that can be started (stopped),
\* whatever resourceIds names
resourcesTo_ignoresIds(call, resources) ==
  LET pass(r) == IF call.op = "startStackResources" THEN r.canStart ELSE r.canStop
  IN  SelectSeq(resources, pass)

\* lines 1136-1138 and 1219-1221: resourcesToStart / resourcesToStop
resourcesTo(call, resources) ==
  LET pass(r) ==
        /\ IF call.op = "startStackResources" THEN r.canStart ELSE r.canStop
        /\ \/ Len(call.resourceIds) = 0
           \/ \E j \in 1..Len(call.resourceIds) : call.resourceIds[j] = r.physicalResourceId
  IN  SelectSeq(resources, pass)

\* the entries of a finished fan-out as the array Promise.all resolves to
asArray(entries, n) == [i \in 1..n |-> entries[i]]

\* lines 1140-1179 and 1223-1273: with the statuses at hand the start and stop
\* methods select their resources and start the second fan-out; the call
\* returns at once when no command is to be awaited
startActing(statuses) ==
  LET sel == resourcesTo(svcCall, statuses)
      cmd(r) == commandFor(svcCall.op, r.resourceType)
      idle == {i \in 1..Len(sel) : cmd(sel[i]) = "none"}
      now == [i \in idle |-> resultEntry(svcCall.op, sel[i], "not_implemented", <<>>)]
  IN  /\ selected' = sel
      /\ results' = now
      /\ acted' = [i \in idle |-> NoCall]
      /\ svcSent' = svcSent \o
           SelectSeq([i \in 1..Len(sel) |->
                        [command |-> cmd(sel[i]), id |-> sel[i].physicalResourceId]],
                     LAMBDA c : c.command # "none")
      /\ IF idle = 1..Len(sel)
         THEN /\ svcPc' = "returned"
              /\ svcResult' = [kind |-> "return", success |-> TRUE,
                               action |-> action(svcCall.op),
                               results |-> asArray(now, Len(sel))]
         ELSE /\ svcPc' = "await_commands"
              /\ UNCHANGED svcResult

\* lines 1088-1096 (and 1133, 1216 in the callers): every status callback has
\* returned, so getStackControllableResources returns
statusesComplete(entries, n) ==
  LET statuses == asArray(entries, n)
  IN  IF svcCall.op = "getStackControllableResources"
      THEN /\ svcPc' = "returned"
           /\ svcResult' = [kind |-> "return", success |-> TRUE,
                            resourceCount |-> Len(statuses),
                            resources |-> statuses]
           /\ UNCHANGED <<selected, acted, results, svcSent>>
      ELSE startActing(statuses)

\* the method is called; it awaits DescribeStackResources first
CallStackMethod(op, resourceIds) ==
  /\ svcPc = "idle"
  /\ svcCall' = [op |-> op, resourceIds |-> resourceIds]
  /\ svcSent' = << [command |-> "DescribeStackResources", id |-> "stack"] >>
  /\ svcPc' = "await_stack_resources"
  /\ UNCHANGED <<controllableResources, described, resourcesWithStatus,
                 selected, acted, results, svcResult>>

\* lines 967-988: the stack's resources arrive; the status callbacks start
DescribeStackResourcesReturns(types) ==
  /\ svcPc = "await_stack_resources"
  /\ LET controllable ==
           SelectSeq(StackResourcesOf(types), LAMBDA r : isControllable(r.ResourceType))
         idle == {i \in 1..Len(controllable) : Observations(controllable[i].ResourceType) = {}}
         now == [i \in idle |-> statusEntry(controllable[i], NoCall)]
         cmd(r) == IF Observations(r.ResourceType) # {} THEN "Describe" ELSE "none"
     IN  /\ controllableResources' = controllable
         /\ described' = [i \in idle |-> NoCall]
         /\ resourcesWithStatus' = now
         /\ IF idle = 1..Len(controllable)
            THEN statusesComplete(now, Len(controllable))
            ELSE /\ svcPc' = "await_statuses"
                 /\ svcSent' = svcSent \o
                      SelectSeq([i \in 1..Len(controllable) |->
                                   [command |-> cmd(controllable[i]),
                                    id |-> controllable[i].PhysicalResourceId]],
                                LAMBDA c : c.command # "none")
                 /\ UNCHANGED <<selected, acted, results, svcResult>>
  /\ UNCHANGED svcCall

\* lines 967 and 1097-1100 (1180-1183, 1274-1277 in the callers):
\* DescribeStackResources fails and the whole call throws
DescribeStackResourcesThrows(e) ==
  /\ svcPc = "await_stack_resources"
  /\ svcPc' = "thrown"
  /\ svcResult' =
       [kind |-> "throw",
        message |->
          (IF svcCall.op = "startStackResources" THEN <<"Failed to start resources: ">>
           ELSE IF svcCall.op = "stopStackResources" THEN <<"Failed to stop resources: ">>
           ELSE <<>>)
          \o <<"Failed to get controllable resources: ">> \o e]
  /\ UNCHANGED <<svcCall, controllableResources, described, resourcesWithStatus,
                 selected, acted, results, svcSent>>

\* lines 989-1073: the describe call of resource i returns
DescribeReturns(i, o) ==
  /\ svcPc = "await_statuses"
  /\ i \in 1..Len(controllableResources)
  /\ i \notin DOMAIN resourcesWithStatus
  /\ o \in Observations(controllableResources[i].ResourceType)
  /\ described' = described @@ (i :> o)
  /\ resourcesWithStatus' =
       resourcesWithStatus @@ (i :> statusEntry(controllableResources[i], o))
  /\ IF DOMAIN resourcesWithStatus' = 1..Len(controllableResources)
     THEN statusesComplete(resourcesWithStatus', Len(controllableResources))
     ELSE UNCHANGED <<svcPc, selected, acted, results, svcSent, svcResult>>
  /\ UNCHANGED <<svcCall, controllableResources>>

\* a status callback without its try/catch: the rejection reaches Promise.all
\* and the outer catch
DescribeThrows_rejects(i, e) ==
  /\ svcPc = "await_statuses"
  /\ i \in 1..Len(controllableResources)
  /\ i \notin DOMAIN resourcesWithStatus
  /\ described' = described @@ (i :> Failed(e))
  /\ svcPc' = "thrown"
  /\ svcResult' = [kind |-> "throw",
                   message |-> <<"Failed to get controllable resources: ">> \o e]
  /\ UNCHANGED <<svcCall, controllableResources, resourcesWithStatus, selected,
                 acted, results, svcSent>>

\* lines 1074-1086: the describe call of resource i throws
DescribeThrows(i, e) ==
  /\ svcPc = "await_statuses"
  /\ i \in 1..Len(controllableResources)
  /\ i \notin DOMAIN resourcesWithStatus
  /\ described' = described @@ (i :> Failed(e))
  /\ resourcesWithStatus' =
       resourcesWithStatus @@ (i :> statusErrorEntry(controllableResources[i], e))
  /\ IF DOMAIN resourcesWithStatus' = 1..Len(controllableResources)
     THEN statusesComplete(resourcesWithStatus', Len(controllableResources))
     ELSE UNCHANGED <<svcPc, selected, acted, results, svcSent, svcResult>>
  /\ UNCHANGED <<svcCall, controllableResources>>

\* lines 1173-1179 and 1267-1273: every command callback has returned
commandsComplete(entries) ==
  IF DOMAIN entries = 1..Len(selected)
  THEN /\ svcPc' = "returned"
       /\ svcResult' = [kind |-> "return", success |-> TRUE,
                        action |-> action(svcCall.op),
                        results |-> asArray(entries, Len(selected))]
  ELSE UNCHANGED <<svcPc, svcResult>>

\* lines 1149-1162 and 1232-1257: the command for selected resource i returns
CommandReturns(i) ==
  /\ svcPc = "await_commands"
  /\ i \in 1..Len(selected)
  /\ i \notin DOMAIN results
  /\ acted' = acted @@ (i :> Observed("", 0))
  /\ results' = results @@ (i :> resultEntry(svcCall.op, selected[i], "success", <<>>))
  /\ commandsComplete(results')
  /\ UNCHANGED <<svcCall, controllableResources, described, resourcesWithStatus,
                 selected, svcSent>>

\* lines 1166-1169 and 1260-1263: the command for selected resource i throws
CommandThrows(i, e) ==
  /\ svcPc = "await_commands"
  /\ i \in 1..Len(selected)
  /\ i \notin DOMAIN results
  /\ acted' = acted @@ (i :> Failed(e))
  /\ results' = results @@ (i :> resultEntry(svcCall.op, selected[i], "error", e))
  /\ commandsComplete(results')
  /\ UNCHANGED <<svcCall, controllableResources, described, resourcesWithStatus,
                 selected, svcSent>>

\* lines 1421-1472: getDemoCostData(stackName, startDate, endDate, granularity,
\* groupBy) builds its return value with accountId: accountId (line 1456), and
\* accountId is neither a parameter nor a binding of the module, so evaluating
\* the object literal throws a ReferenceError
getDemoCostData ==
  [kind |-> "throw", message |-> <<"accountId is not defined">>]

\* lines 1280-1337: getStackCostAnalysis is called and awaits GetCostAndUsage
CallCostAnalysis ==
  /\ svcPc = "idle"
  /\ svcCall' = [op |-> "getStackCostAnalysis", resourceIds |-> <<>>]
  /\ svcSent' = << [command |-> "GetCostAndUsage", id |-> "stack"] >>
  /\ svcPc' = "await_cost"
  /\ UNCHANGED <<controllableResources, described, resourcesWithStatus,
                 selected, acted, results, svcResult>>

\* lines 1337-1358: the Cost Explorer call returns; the processed data is returned
GetCostAndUsageReturns ==
  /\ svcPc = "await_cost"
  /\ svcPc' = "returned"
  /\ svcResult' = [kind |-> "return", success |-> TRUE, demoMode |-> Undefined]
  /\ UNCHANGED <<svcCall, controllableResources, described, resourcesWithStatus,
                 selected, acted, results, svcSent>>

\* lines 1359-1368: the Cost Explorer call throws; the catch returns what
\* getDemoCostData gives for a permissions error and throws a wrapped error
\* otherwise. An exception of getDemoCostData leaves the catch block as it is
GetCostAndUsageThrows(e) ==
  /\ svcPc = "await_cost"
  /\ LET outcome ==
           IF includes(e, <<"not authorized">>) \/ includes(e, <<"AccessDenied">>)
           THEN getDemoCostData
           ELSE [kind |-> "throw",
                 message |-> <<"Failed to get cost analysis: ">> \o e]
     IN /\ svcResult' = outcome
        /\ svcPc' = IF outcome.kind = "throw" THEN "thrown" ELSE "returned"
  /\ UNCHANGED <<svcCall, controllableResources, described, resourcesWithStatus,
                 selected, acted, results, svcSent>>

\* error.message of the errors the Cost Explorer call throws, in pieces
CostErrors ==
  { <<"User is ", "not authorized", " to perform ce:GetCostAndUsage">>,
    <<"AccessDenied", "Exception">>,
    <<"Not Authorized">>,
    <<"Throttling">> }

\* the service is ready for the next call
NextStackCall ==
  /\ svcPc \in {"returned", "thrown"}
  /\ svcPc' = "idle"
  /\ svcCall' = [op |-> "none"]
  /\ controllableResources' = <<>>
  /\ described' = <<>>
  /\ resourcesWithStatus' = <<>>
  /\ selected' = <<>>
  /\ acted' = <<>>
  /\ results' = <<>>
  /\ svcSent' = <<>>
  /\ svcResult' = [kind |-> "none"]

InitStack ==
  /\ svcPc = "idle"
  /\ svcCall = [op |-> "none"]
  /\ controllableResources = <<>>
  /\ described = <<>>
  /\ resourcesWithStatus = <<>>
  /\ selected = <<>>
  /\ acted = <<>>
  /\ results = <<>>
  /\ svcSent = <<>>
  /\ svcResult = [kind |-> "none"]
  /\ AwsOff
  /\ LogsOff
  /\ UiOff
  /\ pc = "idle"
  /\ message = Undefined
  /\ content = Undefined
  /\ sqlQuery = Undefined
  /\ toolResult = Undefined
  /\ toolError = <<>>
  /\ sqlResult = Undefined
  /\ formattedResponse = Undefined
  /\ res = NoResponse
  /\ responsesSent = 0
  /\ events = <<>>
  /\ toolSql = Undefined
  /\ outcomes = <<>>
  /\ suspended = <<>>

NextStack ==
  \/ \E op \in {"getStackControllableResources", "startStackResources",
               "stopStackResources"},
        ids \in {<<>>, <<"r1">>} :
       CallStackMethod(op, ids) /\ UNCHANGED <<chatVars, outcomes, suspended, awsVars, logVars, uiVars>>
  \/ \E types \in SeqsUpTo(ResourceTypes, MaxResources) :
       DescribeStackResourcesReturns(types) /\ UNCHANGED <<chatVars, outcomes, suspended, awsVars, logVars, uiVars>>
  \/ \E e \in AwsErrors :
       DescribeStackResourcesThrows(e) /\ UNCHANGED <<chatVars, outcomes, suspended, awsVars, logVars, uiVars>>
  \/ \E i \in 1..MaxResources, o \in UNION {Observations(t) : t \in ResourceTypes} :
       DescribeReturns(i, o) /\ UNCHANGED <<chatVars, outcomes, suspended, awsVars, logVars, uiVars>>
  \/ \E i \in 1..MaxResources, e \in AwsErrors :
       DescribeThrows(i, e) /\ UNCHANGED <<chatVars, outcomes, suspended, awsVars, logVars, uiVars>>
  \/ \E i \in 1..MaxResources :
       CommandReturns(i) /\ UNCHANGED <<chatVars, outcomes, suspended, awsVars, logVars, uiVars>>
  \/ \E i \in 1..MaxResources, e \in AwsErrors :
       CommandThrows(i, e) /\ UNCHANGED <<chatVars, outcomes, suspended, awsVars, logVars, uiVars>>
  \/ CallCostAnalysis /\ UNCHANGED <<chatVars, outcomes, suspended, awsVars, logVars, uiVars>>
  \/ GetCostAndUsageReturns /\ UNCHANGED <<chatVars, outcomes, suspended, awsVars, logVars, uiVars>>
  \/ \E e \in CostErrors :
       GetCostAndUsageThrows(e) /\ UNCHANGED <<chatVars, outcomes, suspended, awsVars, logVars, uiVars>>
  \/ NextStackCall /\ UNCHANGED <<chatVars, outcomes, suspended, awsVars, logVars, uiVars>>

SpecStack == InitStack /\ [][NextStack]_vars

(***************************************************************************)
(* getStackCloudWatchLogs, lines 786-803: the do-while loop that pages      *)
(* through the log groups of the account.                                  *)
(***************************************************************************)
\* line 792: limit of DescribeLogGroups, the most groups a page holds
PageLimit == 50

\* line 803: the loop goes on while allLogGroups.length < 200
MaxLogGroups == 200

\* lines 786-796: the call reaches the loop and awaits the first page
LogsLoopStarts ==
  /\ logsPc = "idle"
  /\ allLogGroups' = 0
  /\ nextToken' = Undefined
  /\ logsPc' = "await_log_groups"

\* lines 796-803: a page arrives: its groups, when it has any, are appended,
\* its token is kept, and the loop condition decides on another page
DescribeLogGroupsReturns(logGroups, token) ==
  /\ logsPc = "await_log_groups"
  /\ allLogGroups' = IF truthy(logGroups) THEN allLogGroups + Len(logGroups.rows)
                     ELSE allLogGroups
  /\ nextToken' = token
  /\ logsPc' = IF truthy(token) /\ allLogGroups' < MaxLogGroups
               THEN "await_log_groups"
               ELSE "after_loop"

\* lines 796 and 928-930: DescribeLogGroups fails and the call throws
DescribeLogGroupsThrows ==
  /\ logsPc = "await_log_groups"
  /\ logsPc' = "thrown"
  /\ UNCHANGED <<allLogGroups, nextToken>>

\* the locals of the call end with it
NextLogsCall ==
  /\ logsPc \in {"after_loop", "thrown"}
  /\ logsPc' = "idle"
  /\ allLogGroups' = 0
  /\ nextToken' = Undefined

InitLogs ==
  /\ logsPc = "idle"
  /\ allLogGroups = 0
  /\ nextToken = Undefined
  /\ AwsOff
  /\ SvcOff
  /\ UiOff
  /\ pc = "idle"
  /\ message = Undefined
  /\ content = Undefined
  /\ sqlQuery = Undefined
  /\ toolResult = Undefined
  /\ toolError = <<>>
  /\ sqlResult = Undefined
  /\ formattedResponse = Undefined
  /\ res = NoResponse
  /\ responsesSent = 0
  /\ events = <<>>
  /\ toolSql = Undefined
  /\ outcomes = <<>>
  /\ suspended = <<>>

\* logGroupsResponse.logGroups is undefined or an array of at most limit
\* groups; logGroupsResponse.nextToken is undefined, empty or a token
NextLogs ==
  \/ LogsLoopStarts /\ UNCHANGED <<chatVars, outcomes, suspended, awsVars, svcVars, uiVars>>
  \/ \E n \in 0..PageLimit, token \in {Undefined, Str(<<>>), Str(<<"t">>)} :
       \E logGroups \in {Undefined, Arr([i \in 1..n |-> "g"])} :
         DescribeLogGroupsReturns(logGroups, token)
           /\ UNCHANGED <<chatVars, outcomes, suspended, awsVars, svcVars, uiVars>>
  \/ DescribeLogGroupsThrows /\ UNCHANGED <<chatVars, outcomes, suspended, awsVars, svcVars, uiVars>>
  \/ NextLogsCall /\ UNCHANGED <<chatVars, outcomes, suspended, awsVars, svcVars, uiVars>>

SpecLogs == InitLogs /\ [][NextLogs]_vars

(***************************************************************************)
(* The chat page, App.tsx lines 12-104. React runs an event handler to its *)
(* end (for sendMessage: to its first await) and renders the new state     *)
(* before it takes the next event, so a handler reads the state as the     *)
(* handler before it left it.                                              *)
(***************************************************************************)
MaxSendCalls == 3

\* lines 70-77: the message of the catch block
ConnectionErrorMessage ==
  [sender |-> "bot",
   text |-> <<"Sorry, I couldn't connect to the server. Please check if the backend is running.">>,
   isError |-> TRUE]

\* lines 53-69: the message made of the body of the response
botMessage(data) ==
  IF data.success = "true"
  THEN [sender |-> "bot", text |-> data.response, isError |-> FALSE]
  ELSE [sender |-> "bot",
        text |-> IF data.error # <<>> THEN data.error
                 ELSE <<"Sorry, I encountered an error processing your request.">>,
        isError |-> TRUE]

\* what is left of pending when call i has ended
without(calls, i) == SubSeq(calls, 1, i - 1) \o SubSeq(calls, i + 1, Len(calls))

\* lines 207 and 102-104: the user types, or picks a quick question; the
\* field and the buttons are disabled while isLoading
SetInput(text) ==
  /\ ~isLoading
  /\ input' = text
  /\ UNCHANGED <<messages, isLoading, pending, sendCalls>>

\* a sendMessage that tests isLoading only
SendMessage_sendsBlank ==
  /\ sendCalls < MaxSendCalls
  /\ sendCalls' = sendCalls + 1
  /\ IF isLoading
     THEN UNCHANGED <<messages, input, isLoading, pending>>
     ELSE /\ messages' = Append(messages, [sender |-> "user", text |-> input,
                                           isError |-> FALSE])
          /\ input' = <<>>
          /\ isLoading' = TRUE
          /\ pending' = Append(pending, [stage |-> "await_fetch", body |-> input])

\* lines 32-49: sendMessage is called (Enter, the send button, or otherwise)
\* and runs to its first await
SendMessage ==
  /\ sendCalls < MaxSendCalls
  /\ sendCalls' = sendCalls + 1
  /\ IF trim(input) = <<>> \/ isLoading
     THEN UNCHANGED <<messages, input, isLoading, pending>>
     ELSE /\ messages' = Append(messages, [sender |-> "user", text |-> input,
                                           isError |-> FALSE])
          /\ input' = <<>>
          /\ isLoading' = TRUE
          /\ pending' = Append(pending, [stage |-> "await_fetch", body |-> input])

\* lines 45-51: fetch resolves with a response of any status; await res.json()
FetchReturns(i) ==
  /\ i \in 1..Len(pending)
  /\ pending[i].stage = "await_fetch"
  /\ pending' = [pending EXCEPT ![i].stage = "await_json"]
  /\ UNCHANGED <<messages, input, isLoading, sendCalls>>

\* lines 51-69 and 78-80: the body is parsed; the bot message is appended and
\* the finally block clears isLoading
JsonReturns(i, data) ==
  /\ i \in 1..Len(pending)
  /\ pending[i].stage = "await_json"
  /\ messages' = Append(messages, botMessage(data))
  /\ isLoading' = FALSE
  /\ pending' = without(pending, i)
  /\ UNCHANGED <<input, sendCalls>>

\* lines 45, 51 and 70-80: fetch rejects (the network failed) or the body is
\* not JSON; the catch block appends its message and finally clears isLoading
RequestThrows(i) ==
  /\ i \in 1..Len(pending)
  /\ messages' = Append(messages, ConnectionErrorMessage)
  /\ isLoading' = FALSE
  /\ pending' = without(pending, i)
  /\ UNCHANGED <<input, sendCalls>>

InitUI ==
  /\ messages = << [sender |-> "bot", isError |-> FALSE,
                   text |-> <<"Welcome to Kinvolved Education Analytics! ...">>] >>  \* lines 13-19
  /\ input = <<>>
  /\ isLoading = FALSE
  /\ pending = <<>>
  /\ sendCalls = 0
  /\ AwsOff
  /\ SvcOff
  /\ LogsOff
  /\ pc = "idle"
  /\ message = Undefined
  /\ content = Undefined
  /\ sqlQuery = Undefined
  /\ toolResult = Undefined
  /\ toolError = <<>>
  /\ sqlResult = Undefined
  /\ formattedResponse = Undefined
  /\ res = NoResponse
  /\ responsesSent = 0
  /\ events = <<>>
  /\ toolSql = Undefined
  /\ outcomes = <<>>
  /\ suspended = <<>>

\* the texts typed: nothing, blanks, a question; the bodies the server sends:
\* the success body, the failure body of the 500 path, the body of the 400
\* path (no success field), and a failure body with an empty error
NextUI ==
  \/ \E text \in {<<>>, <<" ">>, <<"h","i">>, <<" ","h","i"," ">>} :
       SetInput(text)
         /\ UNCHANGED <<chatVars, outcomes, suspended, awsVars, svcVars, logVars>>
  \/ SendMessage /\ UNCHANGED <<chatVars, outcomes, suspended, awsVars, svcVars, logVars>>
  \/ \E i \in 1..MaxSendCalls :
       FetchReturns(i) /\ UNCHANGED <<chatVars, outcomes, suspended, awsVars, svcVars, logVars>>
  \/ \E i \in 1..MaxSendCalls :
       \E data \in { [success |-> "true", response |-> <<"3 rows">>, error |-> <<>>],
                     [success |-> "false", response |-> <<>>, error |-> <<"Database query failed: x">>],
                     [success |-> "undefined", response |-> <<>>, error |-> <<"No message provided">>],
                     [success |-> "false", response |-> <<>>, error |-> <<>>] } :
         JsonReturns(i, data)
           /\ UNCHANGED <<chatVars, outcomes, suspended, awsVars, svcVars, logVars>>
  \/ \E i \in 1..MaxSendCalls :
       RequestThrows(i) /\ UNCHANGED <<chatVars, outcomes, suspended, awsVars, svcVars, logVars>>

SpecUI == InitUI /\ [][NextUI]_vars

(***************************************************************************)
(* The claims.                                                             *)
(***************************************************************************)
startsWithSqlKeyword(s) == \E k \in sqlKeywords : startsWith(toUpperCase(s), k)

\* C1 (as claimed): whenever the cleaned completion ends up as INVALID_QUERY
\* the translator throws; it never returns the sentinel to the handler.
C1_InvalidQueryIsThrown ==
  pc = "translated" => sqlQuery # Str(INVALID_QUERY)

\* C2 (as claimed): the sql handed to the query tool starts, ignoring case,
\* with one of the seven SQL keywords; a sentinel is never sent as SQL.
C2_ToolSqlStartsWithKeyword ==
  toolCalls > 0 =>
    /\ toolSql.t = "string"
    /\ startsWithSqlKeyword(toolSql.v)
    /\ toolSql.v \notin {INVALID_QUERY, SCHEMA_QUESTION}

firstNonBlankLine(s) ==
  LET lines == split(s)
      nonBlank == {n \in 1..Len(lines) : trim(lines[n]) # <<>>}
  IN  IF nonBlank = {} THEN <<>> ELSE lines[Min(nonBlank)]

\* C3: whatever the completion, the value the translator's clean-up yields is
\* exactly INVALID_QUERY or a text whose first non-blank line starts (ignoring
\* case) with a SQL keyword, so no prose precedes the SQL.
C3_CleanOrInvalid ==
  (pc = "translated" /\ content # Undefined) =>
    \/ sqlQuery.v = INVALID_QUERY
    \/ startsWithSqlKeyword(firstNonBlankLine(sqlQuery.v))

\* C3 witness: a completion with prose on its first line was cleaned to SQL
C3_Witness ==
  /\ pc = "translated"
  /\ content # Undefined
  /\ ~startsWithSqlKeyword(firstNonBlankLine(content.v))
  /\ sqlQuery.v # INVALID_QUERY
  /\ startsWithSqlKeyword(sqlQuery.v)

matchesSchemaKeywordList ==
  /\ message.t = "string"
  /\ \E k \in schemaKeywords : includes(toLowerCase(message.v), k)

\* C4: for a question whose lower-cased text contains a schema-change keyword
\* the translator returns SCHEMA_QUESTION and the request makes no completion
\* call at all.
C4_SchemaShortCircuit ==
  matchesSchemaKeywordList =>
    /\ translationCalls = 0
    /\ narrationCalls = 0
    /\ pc \in {"translated", "done"}
    /\ pc = "translated" => sqlQuery = Str(SCHEMA_QUESTION)

\* C4 witness: a request with such a question was answered
C4_Witness ==
  /\ matchesSchemaKeywordList
  /\ pc = "done"
  /\ res.status = 200
  /\ translationCalls + narrationCalls = 0

executeSQLQueryFinished ==
  /\ connectCalls = 1
  /\ pc \in {"executed", "await_narration", "formatted", "done"}

\* C5 (as claimed): every call of executeSQLQuery closes the client
\* connection exactly once, never zero times and never twice.
C5_ClosedExactlyOnce ==
  executeSQLQueryFinished => closeCalls = 1

wrappedErrorRaised ==
  /\ res.status = 500
  /\ res.body.error[1] = "Database query failed: "

\* C6 (as claimed): on every failure path of executeSQLQuery, a failure of
\* client.connect included, the connection was released before the wrapped
\* error reached the handler.
C6_ReleasedBeforeWrappedError ==
  wrappedErrorRaised => closeCalls >= 1

\* C7: when translation and execution succeeded (the narration call was
\* made), the request ends with HTTP 200 and success:true whether the
\* narration call returned or threw.
C7_NarrationFailureNeverFails ==
  (pc = "done" /\ narrationCalls = 1) =>
    /\ res.status = 200
    /\ res.body.success = TRUE

\* C7 witness: the narration call threw and the request succeeded
C7_Witness ==
  /\ pc = "done"
  /\ Count("narrate.throw") = 1
  /\ res.status = 200
  /\ res.body.response.t \in {"found", "literal"}

\* C8: for a QueryResult with success false formatResponse returns the fixed
\* apology and makes no completion call.
C8_FailureGetsApology ==
  (sqlResult # Undefined /\ ~sqlResult.success) =>
    /\ narrationCalls = 0
    /\ pc \in {"executed", "formatted"}
    /\ pc = "formatted" => formattedResponse = Apology

\* C8 witness: formatResponse returned for a failed QueryResult
C8_Witness ==
  /\ pc = "formatted"
  /\ ~sqlResult.success
  /\ formattedResponse = Apology

precedes(a, b) ==
  \A i \in 1..Len(events) : events[i] = b => \E j \in 1..(i - 1) : events[j] = a

noneAfter(a, later) ==
  \A i \in 1..Len(events) : \A j \in (i + 1)..Len(events) :
    events[i] = a => events[j] \notin later

\* C9: the tool is connected and called only after the translation call has
\* returned, the narration call is made only after the tool call has
\* returned, and after a failed call no call of a later stage is made.
C9_StagesInOrder ==
  /\ precedes("translate.return", "connect.call")
  /\ precedes("translate.return", "tool.call")
  /\ precedes("tool.return", "narrate.call")
  /\ noneAfter("translate.throw", {"connect.call", "tool.call", "close.call", "narrate.call"})
  /\ \A f \in {"connect.throw", "tool.throw", "close.throw"} : noneAfter(f, {"narrate.call"})

\* C9 witness: a request that went through all three stages
C9_Witness ==
  /\ pc = "done"
  /\ events = <<"translate.call", "translate.return", "connect.call",
                "connect.return", "tool.call", "tool.return", "close.call",
                "close.return", "narrate.call", "narrate.return">>

\* C10: when the translator yields SCHEMA_QUESTION the handler answers at once
\* with success:true, sql null and rawData null, and makes no tool call and
\* no narration call.
C10_SchemaBranchSkipsStages ==
  [][(pc = "translated" /\ sqlQuery = Str(SCHEMA_QUESTION)) =>
       /\ pc' = "done"
       /\ events' = <<>>
       /\ res'.status = 200
       /\ res'.body.success = TRUE
       /\ res'.body.sql = Null
       /\ res'.body.rawData = Null]_vars

\* C10 witness: a schema question was answered without any external call
C10_Witness ==
  /\ pc = "done"
  /\ matchesSchemaKeywordList
  /\ events = <<>>
  /\ res.status = 200
  /\ res.body.sql = Null
  /\ res.body.rawData = Null

\* C11: once an external call of the translation stage or of the execution
\* stage has thrown, the handler is either still releasing the connection in
\* the executor's catch or has answered with HTTP 500 and a body
\* {success:false, error} whose error is a non-empty string; every 500
\* response has that body (the TypeErrors of the translator included).
C11_StageExceptionGets500 ==
  /\ \A f \in {"translate.throw", "connect.throw", "tool.throw", "close.throw"} :
       Count(f) > 0 =>
         \/ pc = "await_close_in_catch"
         \/ /\ pc = "done"
            /\ res.status = 500
  /\ res.status = 500 =>
       /\ pc = "done"
       /\ responsesSent = 1
       /\ DOMAIN res.body = {"success", "error"}
       /\ res.body.success = FALSE
       /\ ~emptyMessage(res.body.error)

\* the translation call threw an error with an empty message and the request
\* was answered with the default text
C11_Witness ==
  /\ pc = "done"
  /\ Count("translate.throw") = 1
  /\ res.status = 500
  /\ res.body.error = DefaultErrorMessage

\* C12: a request without a message, or with the empty message, is answered
\* with HTTP 400 and has made no external call at all.
C12_NoMessageGets400 ==
  (pc # "idle" /\ ~truthy(message)) =>
    /\ pc = "done"
    /\ res.status = 400
    /\ responsesSent = 1
    /\ events = <<>>

\* the empty message was posted and answered with 400
C12_Witness ==
  /\ pc = "done"
  /\ message = Str(<<>>)
  /\ res.status = 400
  /\ translationCalls = 0
  /\ toolCalls = 0

\* C13 (as claimed): every failure response, 500 and 400 alike, has the
\* envelope {success:false, error:<string>}.
C13_UniformFailureEnvelope ==
  res.status \in {400, 500} =>
    /\ DOMAIN res.body = {"success", "error"}
    /\ res.body.success = FALSE

\* C14: in one request there is at most one translation completion call, one
\* connect, one query tool call and one narration completion call.
C14_NothingRetried ==
  /\ translationCalls <= 1
  /\ connectCalls <= 1
  /\ toolCalls <= 1
  /\ narrationCalls <= 1

\* a request whose translation call failed ended after that single call
C14_Witness ==
  /\ pc = "done"
  /\ Count("translate.throw") = 1
  /\ translationCalls = 1
  /\ connectCalls = 0

\* the statement DROP TABLE t, as the model's completion may contain it
DropTableStatement == <<"D","R","O","P"," ","T","A","B","L","E"," ","t">>

\* the keywords such a statement begins with
DropTable == <<"D","R","O","P"," ","T","A","B","L","E">>

errorResponse(m) ==
  [status |-> 500,
   body |-> [success |-> FALSE,
             error |-> IF emptyMessage(m) THEN DefaultErrorMessage ELSE m]]

\* lines 377-389 run alone: the response for a translated sql and the outcomes
\* o of the connect, tool, close and narration calls of the request
responseAfterTranslation(sql, o) ==
  IF o[1].kind = "throw" THEN errorResponse(Wrap(o[1].value.message))
  ELSE IF o[2].kind = "throw" \/ o[3].kind = "throw"
  THEN LET first == IF o[2].kind = "throw" THEN o[2] ELSE o[3]
           last == IF o[2].kind = "throw" THEN o[3] ELSE o[4]
       IN  errorResponse(Wrap(IF last.kind = "throw" THEN last.value.message
                                                      ELSE first.value.message))
  ELSE LET result == normalize(o[2].value)
       IN  [status |-> 200,
            body |-> [success |-> TRUE,
                      response |-> IF o[4].kind = "return"
                                   THEN Str(trim(o[4].value.v))
                                   ELSE fallbackText(result),
                      sql |-> sql,
                      rawData |-> result.data]]

\* lines 349-398 run alone: the response of a request as a function of its
\* message m and of the outcomes o of its own external calls, in call order
responseOf(m, o) ==
  IF ~truthy(m)
  THEN [status |-> 400, body |-> [error |-> <<"No message provided">>]]
  ELSE IF m.t # "string"
  THEN errorResponse(<<"question.toLowerCase is not a function">>)
  ELSE IF isSchemaQuestion(m.v)
  THEN [status |-> 200,
        body |-> [success |-> TRUE, response |-> handleSchemaQuestion(m.v),
                  sql |-> Null, rawData |-> Null]]
  ELSE IF o[1].kind = "throw" THEN errorResponse(o[1].value.message)
  ELSE IF o[1].value = Null
  THEN errorResponse(<<"Cannot read properties of null (reading 'trim')">>)
  ELSE LET r == translateCompletion(o[1].value.v)
       IN  IF r.kind = "return"
           THEN responseAfterTranslation(Str(r.value), Tail(o))
           ELSE errorResponse(r.message)

\* the requests in flight: the running one and the waiting ones
inFlight == {frame} \cup {suspended[i] : i \in 1..Len(suspended)}

\* C15: under every interleaving of the continuations of the requests in
\* flight, a request that has been answered got exactly the response its own
\* message and the outcomes of its own external calls determine, and it was
\* answered once.
C15_ResponseDependsOnOwnInputs ==
  \A r \in inFlight :
    r.pc = "done" =>
      /\ r.res = responseOf(r.message, r.outcomes)
      /\ r.responsesSent = 1

\* two requests were in flight together, were translated to different SQL,
\* and were both answered with success
C15_Witness ==
  /\ Len(suspended) >= 1
  /\ pc = "done"
  /\ suspended[1].pc = "done"
  /\ res.status = 200
  /\ suspended[1].res.status = 200
  /\ res.body.sql # Null
  /\ suspended[1].res.body.sql # Null
  /\ res.body.sql # suspended[1].res.body.sql
  /\ Len(events) > 0
  /\ Len(suspended[1].events) > 0

\* C17: a GET /api/aws/stacks answered while awsInitialized is false carries
\* success:true, isDemo:true, stackCount 3 and exactly three stacks whose
\* names all start with demo-, and the request has made no AWS call.
C17_DemoStacks ==
  (awsPc = "responded" /\ ~awsInitialized /\ awsReq.endpoint = "stacks") =>
    /\ awsRes.status = 200
    /\ awsRes.body.success = TRUE
    /\ awsRes.body.isDemo = TRUE
    /\ awsRes.body.stackCount = 3
    /\ Len(awsRes.body.stacks) = 3
    /\ \A i \in 1..Len(awsRes.body.stacks) :
         startsWith(awsRes.body.stacks[i].StackName, <<"demo-">>)
    /\ awsCalls = <<>>

\* the stacks were asked for, with a region, after initialization had failed
C17_Witness ==
  /\ awsPc = "responded"
  /\ ~awsInitialized
  /\ awsReq.endpoint = "stacks"
  /\ truthy(awsReq.region)
  /\ awsRes.status = 200

C20_RegionParameterSelectsRegion ==
  (/\ awsPc = "responded"
   /\ awsInitialized
   /\ awsReq.endpoint = "stacks"
   /\ truthy(awsReq.region)
   /\ awsRes.status = 200) =>
    /\ awsCalls[1].region = awsReq.region.v
    /\ awsRes.body.region = awsReq.region.v

\* the entry the status callback of resource i owes to its own describe call
ownStatusEntry(i) ==
  IF described[i].kind = "throw"
  THEN [physicalResourceId |-> controllableResources[i].PhysicalResourceId,
        resourceType |-> controllableResources[i].ResourceType,
        currentStatus |-> "error", canStart |-> FALSE, canStop |-> FALSE,
        error |-> described[i].message]
  ELSE statusEntry(controllableResources[i], described[i])

\* C19: in the fan-outs the failure of the AWS call for one resource gives an
\* error entry for that resource only. The call is thrown out of only by the
\* stack-level DescribeStackResources, never by a per-resource call; every
\* entry, also while other calls are still under way, is the one its own
\* resource and its own call's outcome determine; and a returned result has
\* success:true and exactly one entry, in order, for every controllable
\* (selected) resource, an error entry exactly where that resource's call threw.
C19_FailureStaysWithItsResource ==
  /\ svcPc = "thrown" =>
       /\ \A i \in DOMAIN described : described[i].kind # "throw"
       /\ \A i \in DOMAIN acted : acted[i].kind # "throw"
  /\ \A i \in DOMAIN resourcesWithStatus : resourcesWithStatus[i] = ownStatusEntry(i)
  /\ \A i \in DOMAIN results :
       /\ results[i].resourceId = selected[i].physicalResourceId
       /\ results[i].status = "error" <=> acted[i].kind = "throw"
       /\ results[i].status = "success" <=> acted[i].kind = "return"
       /\ results[i].status = "not_implemented" <=> acted[i].kind = "none"
  /\ svcPc = "returned" =>
       /\ svcResult.success = TRUE
       /\ IF svcCall.op = "getStackControllableResources"
          THEN /\ Len(svcResult.resources) = Len(controllableResources)
               /\ svcResult.resourceCount = Len(controllableResources)
               /\ \A i \in 1..Len(controllableResources) :
                    /\ svcResult.resources[i] = ownStatusEntry(i)
                    /\ svcResult.resources[i].currentStatus = "error"
                         <=> described[i].kind = "throw"
          ELSE svcCall.op \in {"startStackResources", "stopStackResources"} =>
               /\ Len(svcResult.results) = Len(selected)
               /\ \A i \in 1..Len(selected) :
                    /\ svcResult.results[i] = results[i]
                    /\ svcResult.results[i].status = "error" <=> acted[i].kind = "throw"

\* the status of two resources was asked for, the call for the first threw
\* and the second is reported as it was observed
C19_Witness ==
  /\ svcPc = "returned"
  /\ svcCall.op = "getStackControllableResources"
  /\ Len(svcResult.resources) = 2
  /\ described[1].kind = "throw"
  /\ svcResult.resources[1].currentStatus = "error"
  /\ described[2].kind = "return"
  /\ svcResult.resources[2].currentStatus = "running"
  /\ svcResult.resources[2].canStop


(***************************************************************************)
(* C21-C22: the normalized query result and the fallback text.             *)
(***************************************************************************)
\* C21: when executeSQLQuery returns (close returned on the success path), the
\* result is {success: true, data, rowCount}: rowCount is the length of the
\* payload result.content when it is an array and 1 otherwise, and data is the
\* payload when it is present (truthy, as result.content || result reads it)
\* and the whole tool result otherwise.
C21_NormalizedResult ==
  [][(pc = "await_close" /\ pc' = "executed") =>
       LET payload == toolResult.content
       IN /\ sqlResult'.success = TRUE
          /\ sqlResult'.rowCount =
               (IF payload.t = "array" THEN Len(payload.rows) ELSE 1)
          /\ sqlResult'.data =
               (IF payload \in {Undefined, Null, Str(<<>>)}
                THEN [t |-> "object", content |-> payload]
                ELSE payload)]_vars

\* an empty array was normalized: rowCount 0, data the array itself
C21_Witness ==
  /\ pc = "executed"
  /\ sqlResult.data = Arr(<<>>)
  /\ sqlResult.rowCount = 0

\* C22: when the narration call has failed, the response is the Found text
\* with rowCount and the rows exactly when the query result has rows
\* (rowCount > 0), and "Query completed successfully." otherwise.
C22_FallbackAgreesWithRowCount ==
  (pc = "formatted" /\ events[Len(events)] = "narrate.throw") =>
     IF sqlResult.rowCount > 0
     THEN /\ formattedResponse.t = "found"
          /\ formattedResponse.rowCount = sqlResult.rowCount
          /\ formattedResponse.data = sqlResult.data
     ELSE formattedResponse = Literal("Query completed successfully.")


(***************************************************************************)
(* C23: cost analysis when Cost Explorer refuses.                          *)
(***************************************************************************)
\* C23 (as claimed): when the Cost Explorer call of getStackCostAnalysis fails
\* with a message containing 'not authorized' or 'AccessDenied', the method
\* returns demo cost data with success: true and demoMode: true instead of
\* raising; any other failure raises 'Failed to get cost analysis: ...'.
C23_PermissionErrorGivesDemoCosts ==
  [][\A e \in CostErrors :
       (svcPc = "await_cost" /\ GetCostAndUsageThrows(e)) =>
         IF \E i \in 1..Len(e) : e[i] \in {"not authorized", "AccessDenied"}
         THEN /\ svcResult'.kind = "return"
              /\ svcResult'.success = TRUE
              /\ svcResult'.demoMode = TRUE
         ELSE /\ svcResult'.kind = "throw"
              /\ svcResult'.message = <<"Failed to get cost analysis: ">> \o e]_vars


(***************************************************************************)
(* C24: the stack list of the live stacks endpoint.                        *)
(***************************************************************************)
\* C24: the list listCloudFormationStacks makes of a ListStacks response has
\* no stack with status DELETE_COMPLETE and no two entries of one StackName,
\* stackCount is the number of entries, every name of a stack of the response
\* that is not deleted has an entry, and the entry of a name is a stack of the
\* response with the latest LastUpdatedTime (CreationTime when never updated)
\* among the stacks of that name that are not deleted.
C24_UniqueLatestStacks ==
  (awsPc = "responded" /\ awsReq.endpoint = "stacks" /\ awsCalls # <<>>
     /\ awsRes.status = 200) =>
    LET response == ListStacksResponse(awsCalls[1].region, awsCalls[1].filter)
        live == {i \in 1..Len(response) : response[i].StackStatus # "DELETE_COMPLETE"}
        time(st) == IF st.LastUpdatedTime = 0 THEN st.CreationTime
                    ELSE st.LastUpdatedTime
        stacks == awsRes.body.stacks
    IN  /\ \A i \in 1..Len(stacks) : stacks[i].StackStatus # "DELETE_COMPLETE"
        /\ \A i, j \in 1..Len(stacks) :
             stacks[i].StackName = stacks[j].StackName => i = j
        /\ awsRes.body.stackCount = Len(stacks)
        /\ \A k \in live : \E i \in 1..Len(stacks) :
             stacks[i].StackName = response[k].StackName
        /\ \A i \in 1..Len(stacks) :
             /\ \E k \in live : response[k] = stacks[i]
             /\ \A k \in live :
                  response[k].StackName = stacks[i].StackName
                    => time(response[k]) <= time(stacks[i])

\* us-west-2 answered west-db twice and the later update was kept
C24_Witness ==
  /\ awsPc = "responded"
  /\ awsReq.endpoint = "stacks"
  /\ awsCalls # <<>>
  /\ awsRes.status = 200
  /\ Len(ListStacksResponse(awsCalls[1].region, awsCalls[1].filter)) = 3
  /\ awsRes.body.stackCount = 2
  /\ \E i \in 1..2 :
       /\ awsRes.body.stacks[i].StackName = <<"west-db">>
       /\ awsRes.body.stacks[i].LastUpdatedTime = 3


(***************************************************************************)
(* C25: the log-group pagination loop.                                     *)
(***************************************************************************)
\* C25 (as claimed): whatever pages of at most 50 groups (also fewer, also
\* none) and whatever next tokens DescribeLogGroups answers, the loop of
\* getStackCloudWatchLogs never collects more than 200 log groups.
C25_AtMost200LogGroups ==
  allLogGroups <= 200


(***************************************************************************)
(* C26: which resources a start or stop call acts on.                      *)
(***************************************************************************)
\* C26: every start command startStackResources sends goes to a controllable
\* resource of the stack that was observed stopped (an ECS service: desired
\* count 0) and, when resourceIds is not empty, is named in it; every stop
\* command stopStackResources sends goes to one observed running (EC2),
\* available (RDS) or with a positive desired count (ECS) that passes the same
\* filter; a start call sends no stop command and a stop call no start command;
\* and no resource is reported with canStart and canStop both true.
C26_CommandsOnlyToEligibleResources ==
  LET starts == {"StartInstances", "StartDBInstance", "StartDBCluster"}
      stops == {"StopInstances", "StopDBInstance", "StopDBCluster", "UpdateService"}
      named(id) == \/ svcCall.resourceIds = <<>>
                   \/ \E j \in 1..Len(svcCall.resourceIds) : svcCall.resourceIds[j] = id
      seen(i) == i \in DOMAIN described /\ described[i].kind = "return"
      ecs(i) == controllableResources[i].ResourceType = "AWS::ECS::Service"
      stopped(i) == IF ecs(i) THEN described[i].desiredCount = 0
                    ELSE described[i].status = "stopped"
      up(i) == IF ecs(i) THEN described[i].desiredCount > 0
               ELSE described[i].status \in {"running", "available"}
  IN  /\ \A k \in 1..Len(svcSent) :
           /\ svcSent[k].command \in starts =>
                /\ svcCall.op = "startStackResources"
                /\ named(svcSent[k].id)
                /\ \E i \in 1..Len(controllableResources) :
                     /\ controllableResources[i].PhysicalResourceId = svcSent[k].id
                     /\ seen(i)
                     /\ stopped(i)
           /\ svcSent[k].command \in stops =>
                /\ svcCall.op = "stopStackResources"
                /\ named(svcSent[k].id)
                /\ \E i \in 1..Len(controllableResources) :
                     /\ controllableResources[i].PhysicalResourceId = svcSent[k].id
                     /\ seen(i)
                     /\ up(i)
      /\ \A i \in DOMAIN resourcesWithStatus :
           ~(resourcesWithStatus[i].canStart /\ resourcesWithStatus[i].canStop)

\* two stopped resources, resourceIds names the first: one start command, to it
C26_Witness ==
  /\ svcCall.op = "startStackResources"
  /\ svcCall.resourceIds = <<"r1">>
  /\ Len(controllableResources) = 2
  /\ DOMAIN resourcesWithStatus = {1, 2}
  /\ resourcesWithStatus[1].canStart
  /\ resourcesWithStatus[2].canStart
  /\ \E k \in 1..Len(svcSent) :
       svcSent[k].command \in {"StartInstances", "StartDBInstance"} /\ svcSent[k].id = "r1"
  /\ \A k \in 1..Len(svcSent) : svcSent[k].id = "r2" => svcSent[k].command = "Describe"
  /\ svcPc = "returned"


(***************************************************************************)
(* C27: the mode of the dashboard server.                                  *)
(***************************************************************************)
\* C27: while initializeAWS has not finished the server takes no request and
\* sends no response, and once it has finished no step writes awsInitialized
\* again, also not a step in which an AWS call fails: all requests of one
\* process lifetime are answered in the same mode.
C27_ModeFixedAtStartup ==
  [][/\ awsPc = "starting" =>
          /\ awsReq.endpoint = "none" /\ awsReq'.endpoint = "none"
          /\ awsRes = NoResponse /\ awsRes' = NoResponse
     /\ awsPc # "starting" =>
          /\ awsInitialized' = awsInitialized
          /\ awsPc' # "starting"
     /\ (awsPc = "listening" /\ awsPc' = "responded") => ~awsInitialized
     /\ (awsPc = "listening" /\ awsPc' = "await_service") => awsInitialized]_vars

\* an AWS call has just failed and the server is still in live mode
C27_Witness ==
  /\ awsPc = "responded"
  /\ awsRes.status = 500
  /\ awsCalls # <<>>
  /\ awsInitialized


(***************************************************************************)
(* C28: one response per request.                                          *)
(***************************************************************************)
\* C28: when every external call eventually returns or throws, a POST /chat
\* request that has been taken eventually ends with exactly one response sent;
\* at no time has it sent two, and it never ends without one.
C28_ExactlyOneResponse ==
  /\ [](responsesSent <= 1)
  /\ [](pc = "done" => responsesSent = 1 /\ res.status \in {200, 400, 500})
  /\ (pc # "idle") ~> (pc = "done" /\ responsesSent = 1)

\* a request ended on the failure path, after the tool call threw, with its
\* one response
C28_Witness ==
  /\ pc = "done"
  /\ responsesSent = 1
  /\ res.status = 500
  /\ Count("tool.throw") = 1


(***************************************************************************)
(* C29: the chat page sends one question at a time.                        *)
(***************************************************************************)
\* C29: a call of sendMessage while isLoading is true or while the input is
\* blank changes nothing; an accepted call appends the user's message and
\* starts one request; at most one request is outstanding at any time;
\* isLoading is true exactly while a request is outstanding, so it is false
\* again after a success body, an error body and a network failure; and after
\* the welcome message the messages alternate, user then bot, so that every
\* accepted send has exactly one user message followed by exactly one bot
\* message.
C29_OneQuestionAtATime ==
  /\ [](Len(pending) <= 1)
  /\ [](isLoading <=> pending # <<>>)
  /\ [](/\ Len(messages) >= 1
        /\ \A k \in 1..Len(messages) :
             messages[k].sender = IF k % 2 = 0 THEN "user" ELSE "bot"
        /\ isLoading <=> messages[Len(messages)].sender = "user")
  /\ [][(/\ sendCalls' = sendCalls + 1
         /\ (isLoading \/ \A k \in 1..Len(input) : input[k] \in {" ", "\n"}))
          => UNCHANGED <<messages, input, isLoading, pending>>]_vars
  /\ [][(/\ sendCalls' = sendCalls + 1
         /\ ~(isLoading \/ \A k \in 1..Len(input) : input[k] \in {" ", "\n"}))
          => /\ messages' = Append(messages, [sender |-> "user", text |-> input,
                                              isError |-> FALSE])
             /\ Len(pending') = 1
             /\ isLoading']_vars

\* sendMessage was called twice, one call was ignored, and the accepted one
\* ended in a network failure with its one error message and isLoading false
C29_Witness ==
  /\ sendCalls = 2
  /\ Len(messages) = 3
  /\ messages[2].sender = "user"
  /\ messages[3] = ConnectionErrorMessage
  /\ ~isLoading


(***************************************************************************)
(* C30: the clean-up of the translator is idempotent.                      *)
(***************************************************************************)
\* C30: a string that translateQuestionToSQL returned as SQL (not the
\* INVALID_QUERY sentinel) is a fixed point of its clean-up: trimming it,
\* stripping a code fence, removing leading prose and validating the first
\* keyword gives the same string back.
C30_SanitizerIdempotent ==
  (/\ pc = "translated"
   /\ content # Undefined
   /\ sqlQuery.t = "string"
   /\ sqlQuery.v # INVALID_QUERY)
    => translateCompletion(sqlQuery.v) = Return(sqlQuery.v)

====
